---- MODULE Spec2Model ----
(***************************************************************************)
(* A model of the recall backup engine: the change-decision engine         *)
(* (scanner.rs, decide_action), the scanner/executor pipeline (scanner.rs, *)
(* executor.rs, main.rs) and the generation commit protocol                *)
(* (executor.rs, commit_backup), over a small explicit filesystem.         *)
(*                                                                         *)
(* Spec        the whole of run_backup, run up to MaxRuns times            *)
(* SpecDecide  decide_action applied to one source entry and one reference *)
(***************************************************************************)
EXTENDS Integers, Sequences, FiniteSets, TLC

(***************************************************************************)
(* Bounds of the model.                                                    *)
(***************************************************************************)
\* longest file content, in bytes
MaxLen == 2
\* number of values a content digest can take (the code's digest is 64 bits wide)
HashSpace == 3
\* run_backup invocations in one behaviour
MaxRuns == 2
\* wall-clock seconds the generation names are drawn from
MaxStamp == 2
\* worker threads of the pool (--workers)
Workers == 2
\* capacity of the task channel in the model (1000 in main.rs:230)
ChanCap == 2
\* file operations that fail in one behaviour
MaxFailures == 1
MaxKeep == 2

(***************************************************************************)
(* Program constants.                                                      *)
(***************************************************************************)
\* scanner.rs:271, diff.as_millis() < 1000
ToleranceMs == 1000

(***************************************************************************)
(* Filesystem values.                                                      *)
(*                                                                         *)
(* A relative path is a sequence of one-character component names; its     *)
(* string form joins them with "/".  A node is what one directory entry    *)
(* holds.  `ok` is: for a file, whether it can be opened for reading; for  *)
(* a symlink, whether read_link succeeds; for a directory, whether it can  *)
(* be listed.  mtime is in microseconds; NoTime stands for a platform      *)
(* that reports no modification time.                                      *)
(***************************************************************************)
Bytes == {1, 2}

Contents == UNION {[1..n -> Bytes] : n \in 0..MaxLen}

NoTime == -1

NoNode == [kind |-> "absent", bytes |-> <<>>, perm |-> 0, mtime |-> 0, target |-> <<>>, ok |-> FALSE]

FileNode(b, p, t, r) == [kind |-> "file", bytes |-> b, perm |-> p, mtime |-> t, target |-> <<>>, ok |-> r]

DirNode == [kind |-> "dir", bytes |-> <<>>, perm |-> 493, mtime |-> 0, target |-> <<>>, ok |-> TRUE]

LinkNode(tg, r) == [kind |-> "symlink", bytes |-> <<>>, perm |-> 511, mtime |-> 0, target |-> tg, ok |-> r]

\* the paths of the model's trees: the root, a directory with one file in it,
\* and one more entry beside the directory
AllPaths == {<<>>, <<"d">>, <<"d", "g">>, <<"s">>}

EmptyTree == [p \in AllPaths |-> NoNode]

Parent(p) == IF p = <<>> THEN <<>> ELSE SubSeq(p, 1, Len(p) - 1)

\* the node a path leads to once a final symbolic link is followed (a relative
\* target is resolved in the link's own directory); a dangling link, or a link
\* to a link, leads nowhere
Follow(tree, p) ==
  LET n == tree[p] IN
  IF n.kind # "symlink" THEN n
  ELSE LET q == Parent(p) \o n.target IN
       IF q \in AllPaths /\ tree[q].kind \in {"file", "dir"} THEN tree[q] ELSE NoNode

(***************************************************************************)
(* Names under the destination root, and absolute paths.                   *)
(*                                                                         *)
(* A name is the timestamp of a generation (the second it was started in), *)
(* with or without the ".partial" suffix, or "current".  An absolute path  *)
(* is a root (the source root or a directory under the destination root)   *)
(* and a relative path below it.                                           *)
(***************************************************************************)
StampName(t, part) == [base |-> "stamp", stamp |-> t, partial |-> part, padded |-> TRUE]

CurrentName == [base |-> "current", stamp |-> 0, partial |-> FALSE, padded |-> TRUE]

SourceRoot == [base |-> "source", stamp |-> 0, partial |-> FALSE, padded |-> TRUE]

NoRoot == [base |-> "none", stamp |-> 0, partial |-> FALSE, padded |-> TRUE]

\* a directory name somebody wrote by hand: the timestamp of second t with
\* the seconds not padded to two digits
LooseName(t) == [base |-> "stamp", stamp |-> t, partial |-> FALSE, padded |-> FALSE]

\* a name that is no timestamp at all
NotesName == [base |-> "notes", stamp |-> 0, partial |-> FALSE, padded |-> TRUE]

Names == {StampName(t, part) : t \in 1..MaxStamp, part \in BOOLEAN} \cup {CurrentName}

\* the entries prune_backups is tried on: three generations, one of them
\* written late in the minute, a generation directory named by hand, a
\* directory left in progress, `current`, and a directory that is no generation
PruneNames ==
  {StampName(1, FALSE), StampName(2, FALSE), StampName(10, FALSE), LooseName(3),
   StampName(10, TRUE), CurrentName, NotesName}

NameUniverse == Names \cup PruneNames

PathOf(root, rel) == [root |-> root, rel |-> rel]

\* Option<PathBuf>::None
NoPath == PathOf(NoRoot, <<>>)

\* the hard links of a directory under the destination root: for each path,
\* the generation in which the inode behind it was made by a copy, or NoRoot
\* for an entry that is the only name of its inode
NoShares == [p \in AllPaths |-> NoRoot]

NoEntry ==
  [kind |-> "absent", tree |-> EmptyTree, link |-> NoRoot, owner |-> 0, shares |-> NoShares]

DirEntry(tree, run) ==
  [kind |-> "dir", tree |-> tree, link |-> NoRoot, owner |-> run, shares |-> NoShares]

LinkEntry(to) ==
  [kind |-> "symlink", tree |-> EmptyTree, link |-> to, owner |-> 0, shares |-> NoShares]

\* a regular file under the destination root
FileEntry ==
  [kind |-> "file", tree |-> EmptyTree, link |-> NoRoot, owner |-> 0, shares |-> NoShares]

VARIABLES
  src,        \* the source tree: AllPaths -> node
  dest,       \* the destination root's entries: Names -> entry
  destRoot,   \* whether the destination root directory exists
  platform,   \* the build target: "unix" or "windows"
  config,     \* BackupConfig: check_content, exclude_patterns, dry_run, destination
  pc,         \* where run_backup stands
  runs,       \* run_backup invocations started so far
  clock,      \* the wall clock, in seconds
  stamp,      \* timestamp_folder_name of the current run
  latest_backup, \* what find_latest_backup returned to the current run, or NoRoot
  scan,       \* the scanner thread: "idle", "walking" or "finished" (sender dropped)
  walk,       \* the walker's pending entries, next first
  chan,       \* the bounded channel of (task, action) pairs, oldest first
  worker,     \* the pool's threads: what each holds
  stats,      \* BackupStats behind the mutex
  emitted,    \* history: the pairs the scanner sent in the current run, in order
  failedTasks, \* history: relative paths of the current run's tasks that returned Err
  failures,   \* history: file operations that failed so far
  log,        \* history: one record per finished run
  task,       \* SpecDecide: the FileTask under classification
  action,     \* SpecDecide: the SyncAction decide_action returned, or NoAction
  prune,      \* SpecPrune: prune_backups' arguments, locals and position
  processed,  \* history: how often process_task was called on each relative path
  ignore      \* SpecConfig: the file .recallignore of the source, absent or its lines

fsVars == <<src, dest, destRoot>>

runVars == <<pc, runs, clock, stamp, latest_backup, scan, walk, chan, worker, stats,
             emitted, failedTasks, failures, log>>

vars == <<src, dest, destRoot, platform, config, pc, runs, clock, stamp, latest_backup,
          scan, walk, chan, worker, stats, emitted, failedTasks, failures, log,
          task, action, prune, processed, ignore>>

TreeAt(root) ==
  IF root = SourceRoot THEN src
  ELSE IF root \in DOMAIN dest /\ dest[root].kind = "dir" THEN dest[root].tree
  ELSE EmptyTree

(***************************************************************************)
(* std::fs and std::path queries, on an absolute path.                     *)
(***************************************************************************)
\* fs::symlink_metadata: the entry itself; an absent node is the Err case
symlink_metadata(path) == TreeAt(path.root)[path.rel]

\* fs::metadata: the entry after following a symbolic link
metadata(path) == Follow(TreeAt(path.root), path.rel)

\* Path::exists is fs::metadata(path).is_ok()
exists(path) == metadata(path).kind # "absent"

\* Path::is_dir is fs::metadata(path).map(|m| m.is_dir()).unwrap_or(false)
is_dir(path) == metadata(path).kind = "dir"

\* fs::read_link(path).is_ok()
read_link_ok(path) == symlink_metadata(path).kind = "symlink" /\ symlink_metadata(path).ok

\* Metadata::len; a directory's length is taken as 0
len(meta) == Len(meta.bytes)

\* PermissionsExt::mode: the whole st_mode, file type bits included
mode(meta) ==
  (CASE meta.kind = "file" -> 32768
     [] meta.kind = "dir" -> 16384
     [] OTHER -> 40960) + meta.perm

(***************************************************************************)
(* hasher.rs: calculate_hash.  The digest is a function of the file's      *)
(* bytes alone, folded over them in order, into a fixed-width value; the   *)
(* width is HashSpace values here, so that, as with any fixed-width digest *)
(* of longer content, two contents can share one digest.                   *)
(***************************************************************************)
RECURSIVE Xxh3Digest(_, _)
Xxh3Digest(acc, bytes) ==
  IF bytes = <<>> THEN acc
  ELSE Xxh3Digest((acc + Head(bytes)) % HashSpace, Tail(bytes))

\* File::open and the read loop succeed on a readable regular file only
calculate_hash_ok(path) == metadata(path).kind = "file" /\ metadata(path).ok

calculate_hash(path) == Xxh3Digest(0, metadata(path).bytes)

(***************************************************************************)
(* actions.rs: SyncAction.  `path` is the argument of Link, `target` the   *)
(* argument of MakeSymlink.                                                *)
(***************************************************************************)
CopyNew == [type |-> "CopyNew", path |-> NoPath, target |-> <<>>]

CopyModified == [type |-> "CopyModified", path |-> NoPath, target |-> <<>>]

Link(old) == [type |-> "Link", path |-> old, target |-> <<>>]

MakeSymlink(tg) == [type |-> "MakeSymlink", path |-> NoPath, target |-> tg]

CreateDir == [type |-> "CreateDir", path |-> NoPath, target |-> <<>>]

Skip == [type |-> "Skip", path |-> NoPath, target |-> <<>>]

NoAction == [type |-> "none", path |-> NoPath, target |-> <<>>]

\* actions.rs: FileTask::new
FileTask(rel, s, d, o) == [rel_path |-> rel, src_path |-> s, dest_path |-> d, old_path |-> o]

(***************************************************************************)
(* scanner.rs: decide_action.                                              *)
(***************************************************************************)
\* the branch taken when old_path is None (lines 179-192) and, with the same
\* text, when the reference does not exist (lines 196-208)
NoReferenceAction(t) ==
  IF is_dir(t.src_path) THEN CreateDir
  ELSE IF symlink_metadata(t.src_path).kind = "symlink" /\ read_link_ok(t.src_path)
       THEN MakeSymlink(symlink_metadata(t.src_path).target)
  ELSE CopyNew

\* Duration::as_millis of the absolute difference of two SystemTimes
DiffMillis(a, b) == (IF a > b THEN a - b ELSE b - a) \div 1000

\* mutant: the tolerance taken inclusively (diff <= 1000 ms)
Mut_mtime_match_inclusive(src_meta, old_meta) ==
  /\ src_meta.mtime # NoTime
  /\ old_meta.mtime # NoTime
  /\ DiffMillis(src_meta.mtime, old_meta.mtime) <= ToleranceMs

\* lines 261-274
mtime_match(src_meta, old_meta) ==
  /\ src_meta.mtime # NoTime
  /\ old_meta.mtime # NoTime
  /\ DiffMillis(src_meta.mtime, old_meta.mtime) < ToleranceMs

\* the content comparison of lines 283-296
HashesAgree(t) ==
  /\ calculate_hash_ok(t.src_path)
  /\ calculate_hash_ok(t.old_path)
  /\ calculate_hash(t.src_path) = calculate_hash(t.old_path)

\* mutant: the mtime shortcut taken before the size comparison
Mut_CompareMtimeBeforeSize(t, cfg) ==
  LET src_meta == symlink_metadata(t.src_path)
      old_meta == metadata(t.old_path)
  IN
  IF old_meta.kind = "absent" THEN CopyNew
  ELSE IF mtime_match(src_meta, old_meta) /\ ~cfg.check_content THEN Link(t.old_path)
  ELSE IF len(src_meta) # len(old_meta) THEN CopyModified
  ELSE IF platform = "unix" /\ mode(src_meta) # mode(old_meta) THEN CopyModified
  ELSE IF cfg.check_content THEN (IF HashesAgree(t) THEN Link(t.old_path) ELSE CopyModified)
  ELSE CopyModified

\* mutant: the digests compared only after an mtime match
Mut_CompareHashOnlyOnMatch(t, cfg) ==
  LET src_meta == symlink_metadata(t.src_path)
      old_meta == metadata(t.old_path)
  IN
  IF old_meta.kind = "absent" THEN CopyNew
  ELSE IF len(src_meta) # len(old_meta) THEN CopyModified
  ELSE IF platform = "unix" /\ mode(src_meta) # mode(old_meta) THEN CopyModified
  ELSE IF ~mtime_match(src_meta, old_meta) THEN CopyModified
  ELSE IF ~cfg.check_content THEN Link(t.old_path)
  ELSE IF HashesAgree(t) THEN Link(t.old_path)
  ELSE CopyModified

\* mutant: an mtime match trusted whatever check_content says
Mut_CompareIgnoreCheckContent(t, cfg) ==
  LET src_meta == symlink_metadata(t.src_path)
      old_meta == metadata(t.old_path)
  IN
  IF old_meta.kind = "absent" THEN CopyNew
  ELSE IF len(src_meta) # len(old_meta) THEN CopyModified
  ELSE IF platform = "unix" /\ mode(src_meta) # mode(old_meta) THEN CopyModified
  ELSE IF mtime_match(src_meta, old_meta) THEN Link(t.old_path)
  ELSE IF cfg.check_content THEN (IF HashesAgree(t) THEN Link(t.old_path) ELSE CopyModified)
  ELSE CopyModified

\* mutant: a digest that cannot be computed counts as agreement
Mut_CompareLinksOnHashFailure(t, cfg) ==
  LET src_meta == symlink_metadata(t.src_path)
      old_meta == metadata(t.old_path)
  IN
  IF old_meta.kind = "absent" THEN CopyNew
  ELSE IF len(src_meta) # len(old_meta) THEN CopyModified
  ELSE IF platform = "unix" /\ mode(src_meta) # mode(old_meta) THEN CopyModified
  ELSE IF mtime_match(src_meta, old_meta) /\ ~cfg.check_content THEN Link(t.old_path)
  ELSE IF cfg.check_content
       THEN (IF /\ calculate_hash_ok(t.src_path)
                /\ calculate_hash_ok(t.old_path)
                /\ calculate_hash(t.src_path) # calculate_hash(t.old_path)
             THEN CopyModified ELSE Link(t.old_path))
  ELSE CopyModified

\* lines 239-299: a source entry that is neither a directory nor a symlink
CompareWithReference(t, cfg) ==
  LET src_meta == symlink_metadata(t.src_path)
      old_meta == metadata(t.old_path)
  IN
  IF old_meta.kind = "absent" THEN CopyNew
  ELSE IF len(src_meta) # len(old_meta) THEN CopyModified
  ELSE IF platform = "unix" /\ mode(src_meta) # mode(old_meta) THEN CopyModified
  ELSE IF mtime_match(src_meta, old_meta) /\ ~cfg.check_content THEN Link(t.old_path)
  ELSE IF cfg.check_content THEN (IF HashesAgree(t) THEN Link(t.old_path) ELSE CopyModified)
  ELSE CopyModified

\* lines 222-237
SymlinkAction(t) ==
  IF read_link_ok(t.src_path) THEN
    IF /\ symlink_metadata(t.old_path).kind = "symlink"
       /\ read_link_ok(t.old_path)
       /\ symlink_metadata(t.src_path).target = symlink_metadata(t.old_path).target
    THEN Link(t.old_path)
    ELSE MakeSymlink(symlink_metadata(t.src_path).target)
  ELSE Skip

decide_action(t, cfg) ==
  IF t.old_path = NoPath THEN NoReferenceAction(t)
  ELSE IF ~exists(t.old_path) THEN NoReferenceAction(t)
  ELSE IF symlink_metadata(t.src_path).kind = "absent" THEN Skip
  ELSE IF is_dir(t.src_path) THEN CreateDir
  ELSE IF symlink_metadata(t.src_path).kind = "symlink" THEN SymlinkAction(t)
  ELSE CompareWithReference(t, cfg)


(***************************************************************************)
(* utils.rs: matches_exclude_pattern, over glob::Pattern.  A pattern is a  *)
(* sequence of characters; "*" matches any run of characters and "?" any   *)
(* one character, "/" included (Pattern::matches uses the default          *)
(* MatchOptions, where require_literal_separator is false).  Pattern::new  *)
(* rejects a pattern with an unclosed "[".                                 *)
(***************************************************************************)
\* Path::to_string_lossy of a relative path
RECURSIVE path_str(_)
path_str(rel) ==
  IF rel = <<>> THEN <<>>
  ELSE IF Len(rel) = 1 THEN <<rel[1]>>
  ELSE <<rel[1], "/">> \o path_str(Tail(rel))

PatternNewOk(pat) == \A i \in 1..Len(pat) : pat[i] # "["

RECURSIVE PatternMatches(_, _)
PatternMatches(pat, str) ==
  IF pat = <<>> THEN str = <<>>
  ELSE IF Head(pat) = "*" THEN
    \E k \in 0..Len(str) : PatternMatches(Tail(pat), SubSeq(str, k + 1, Len(str)))
  ELSE /\ str # <<>>
       /\ Head(pat) \in {"?", Head(str)}
       /\ PatternMatches(Tail(pat), Tail(str))

\* scanner.rs lines 90-100: malformed patterns are dropped
compiled_patterns(cfg) == SelectSeq(cfg.exclude_patterns, PatternNewOk)

matches_exclude_pattern(rel, patterns) ==
  \E i \in 1..Len(patterns) : PatternMatches(patterns[i], path_str(rel))

\* the predicate given to filter_entry (scanner.rs lines 106-113)
filter_entry(rel, cfg) == ~matches_exclude_pattern(rel, compiled_patterns(cfg))

(***************************************************************************)
(* The walk of WalkDir::new(source).follow_links(false): the root first,   *)
(* then every directory's entries right after the directory itself.  A     *)
(* directory lists its entries in DirOrder.                                *)
(***************************************************************************)
DirOrder == << <<"d">>, <<"d", "g">>, <<"s">> >>

ReadDir(tree, p) ==
  LET IsChild(q) == q # <<>> /\ Parent(q) = p /\ tree[q].kind # "absent"
  IN SelectSeq(DirOrder, IsChild)

\* a directory that cannot be listed (fs::read_dir returns an error)
UnreadableDir == [DirNode EXCEPT !.ok = FALSE]

\* the item the walker yields for a directory it could not list: an Err that
\* carries the directory's path
WalkErr(rel) == <<"!">> \o rel

IsWalkErr(item) == item # <<>> /\ item[1] = "!"

\* what the walker still has to yield once it has yielded rel: a directory is
\* yielded first and opened then, and a failure to open it is the next item
Descend(tree, rel, rest) ==
  (IF tree[rel].kind = "dir"
   THEN (IF tree[rel].ok THEN ReadDir(tree, rel) ELSE <<WalkErr(rel)>>)
   ELSE <<>>) \o rest

(***************************************************************************)
(* Generation listings: scanner.rs find_latest_backup and prune.rs          *)
(* find_all_backups, which share the filter and the sort.                   *)
(***************************************************************************)
\* Path::is_dir on an entry of the destination root (a symlink is followed)
EntryIsDir(nm) ==
  \/ dest[nm].kind = "dir"
  \/ /\ dest[nm].kind = "symlink"
     /\ dest[nm].link \in DOMAIN dest
     /\ dest[dest[nm].link].kind = "dir"

(***************************************************************************)
(* File names as text.  A name is a sequence of characters; the model's     *)
(* clock counts the seconds of 2024-01-01 00:00, so second t is written     *)
(* 2024-01-01_00-00-tt by Local::now().format("%Y-%m-%d_%H-%M-%S").         *)
(***************************************************************************)
DigitChars == <<"0", "1", "2", "3", "4", "5", "6", "7", "8", "9">>

DigitValue == [c \in {DigitChars[i] : i \in 1..10} |->
                 CHOOSE v \in 0..9 : DigitChars[v + 1] = c]

\* the byte values of the characters that occur in the model's names
Code == [c \in {"-", ".", "_", "a", "c", "e", "i", "l", "n", "o", "p", "r", "s", "t", "u"}
              \cup {DigitChars[i] : i \in 1..10} |->
           CASE c = "-" -> 45 [] c = "." -> 46 [] c = "_" -> 95
             [] c = "a" -> 97 [] c = "c" -> 99 [] c = "e" -> 101 [] c = "i" -> 105
             [] c = "l" -> 108 [] c = "n" -> 110 [] c = "o" -> 111 [] c = "p" -> 112
             [] c = "r" -> 114 [] c = "s" -> 115 [] c = "t" -> 116 [] c = "u" -> 117
             [] OTHER -> 48 + DigitValue[c]]

\* %S and the other two-digit fields as format writes them: zero-padded
TwoDigits(n) == <<DigitChars[(n \div 10) + 1], DigitChars[(n % 10) + 1]>>

\* a number written without padding
Unpadded(n) == IF n < 10 THEN <<DigitChars[n + 1]>> ELSE TwoDigits(n)

\* main.rs lines 145-146: now.format("%Y-%m-%d_%H-%M-%S") in second t
timestamp_folder_name(t) ==
  <<"2", "0", "2", "4", "-", "0", "1", "-", "0", "1", "_", "0", "0", "-", "0", "0", "-">>
    \o TwoDigits(t)

DotPartial == <<".", "p", "a", "r", "t", "i", "a", "l">>

\* Path::file_name of an entry of the destination root
file_name(nm) ==
  CASE nm.base = "stamp" ->
         (IF nm.padded THEN timestamp_folder_name(nm.stamp)
          ELSE SubSeq(timestamp_folder_name(nm.stamp), 1, 17) \o Unpadded(nm.stamp))
           \o (IF nm.partial THEN DotPartial ELSE <<>>)
    [] nm.base = "current" -> <<"c", "u", "r", "r", "e", "n", "t">>
    [] OTHER -> <<"n", "o", "t", "e", "s">>

\* str::ends_with
ends_with(s, suffix) ==
  Len(s) >= Len(suffix) /\ SubSeq(s, Len(s) - Len(suffix) + 1, Len(s)) = suffix

\* the order of Path: for entries of one directory, their names byte by byte
RECURSIVE LexLess(_, _)
LexLess(a, b) ==
  IF b = <<>> THEN FALSE
  ELSE IF a = <<>> THEN TRUE
  ELSE IF Code[Head(a)] # Code[Head(b)] THEN Code[Head(a)] < Code[Head(b)]
  ELSE LexLess(Tail(a), Tail(b))

(***************************************************************************)
(* chrono: NaiveDateTime::parse_from_str.  A numeric item takes the longest *)
(* run of one to `width` digits, a literal must be met as written, nothing   *)
(* may be left over, and the fields must make a date and a time.            *)
(***************************************************************************)
NumItem(w) == [width |-> w, lit |-> ""]

LitItem(c) == [width |-> 0, lit |-> c]

\* "%Y-%m-%d_%H-%M-%S"
TimestampFormat ==
  <<NumItem(4), LitItem("-"), NumItem(2), LitItem("-"), NumItem(2), LitItem("_"),
    NumItem(2), LitItem("-"), NumItem(2), LitItem("-"), NumItem(2)>>

IsDigit(c) == c \in DOMAIN DigitValue

\* scan::number(s, 1, width): how many digits the item takes
RECURSIVE DigitRun(_, _)
DigitRun(s, width) ==
  IF width = 0 \/ s = <<>> \/ ~IsDigit(Head(s)) THEN 0
  ELSE 1 + DigitRun(Tail(s), width - 1)

RECURSIVE NumberOf(_, _)
NumberOf(s, acc) ==
  IF s = <<>> THEN acc ELSE NumberOf(Tail(s), 10 * acc + DigitValue[Head(s)])

\* the fields read so far, or <<-1>> once the text does not fit the format
RECURSIVE ParseItems(_, _, _)
ParseItems(s, items, fields) ==
  IF items = <<>> THEN (IF s = <<>> THEN fields ELSE <<-1>>)
  ELSE LET it == Head(items) IN
       IF it.width = 0
       THEN IF s # <<>> /\ Head(s) = it.lit
            THEN ParseItems(Tail(s), Tail(items), fields)
            ELSE <<-1>>
       ELSE LET n == DigitRun(s, it.width) IN
            IF n = 0 THEN <<-1>>
            ELSE ParseItems(SubSeq(s, n + 1, Len(s)), Tail(items),
                            Append(fields, NumberOf(SubSeq(s, 1, n), 0)))

DaysIn(y, m) ==
  IF m = 2 THEN (IF (y % 4 = 0 /\ y % 100 # 0) \/ y % 400 = 0 THEN 29 ELSE 28)
  ELSE IF m \in {4, 6, 9, 11} THEN 30 ELSE 31

\* Parsed::to_naive_datetime_with_offset: the fields make a date and a time
\* (second 60 is taken as a leap second)
FieldsValid(f) ==
  /\ Len(f) = 6
  /\ f[2] \in 1..12
  /\ f[3] \in 1..DaysIn(f[1], f[2])
  /\ f[4] \in 0..23
  /\ f[5] \in 0..59
  /\ f[6] \in 0..60

\* NaiveDateTime::parse_from_str(s, "%Y-%m-%d_%H-%M-%S"): the six fields, or
\* <<-1>> for Err
parse_from_str(s) ==
  LET f == ParseItems(s, TimestampFormat, <<>>)
  IN IF FieldsValid(f) THEN f ELSE <<-1>>

\* the text of each name, what the parser makes of it, and the names that
\* sort after it
NameText == [nm \in NameUniverse |-> file_name(nm)]

NameFields == [nm \in NameUniverse |-> parse_from_str(NameText[nm])]

NameAfter == [nm \in NameUniverse |-> {y \in NameUniverse : LexLess(NameText[nm], NameText[y])}]

\* mutant: every name is taken for a timestamp
Mut_is_valid_backup_folder_name_any(nm) == TRUE

\* scanner.rs lines 56-61 and prune.rs lines 57-62
is_valid_backup_folder_name(nm) == NameFields[nm] # <<-1>>

\* mutant: every directory but `current` is taken for a generation
Mut_BackupFilterAnyDirectory(nm) == EntryIsDir(nm) /\ nm # CurrentName

\* the closure of scanner.rs lines 40-45 and prune.rs lines 33-38
BackupFilter(nm) ==
  /\ EntryIsDir(nm)
  /\ ~ends_with(NameText[nm], DotPartial)
  /\ NameText[nm] # NameText[CurrentName]
  /\ is_valid_backup_folder_name(nm)

\* backups.sort(): the paths in the order of Path
RECURSIVE SortNames(_)
SortNames(S) ==
  IF S = {} THEN <<>>
  ELSE LET m == CHOOSE x \in S : S \ {x} \subseteq NameAfter[x]
       IN <<m>> \o SortNames(S \ {m})

find_all_backups ==
  IF ~destRoot THEN <<>>
  ELSE SortNames({nm \in DOMAIN dest : dest[nm].kind # "absent" /\ BackupFilter(nm)})

\* mutant: the latest generation read from the `current` link
Mut_find_latest_backup_from_current ==
  IF destRoot /\ dest[CurrentName].kind = "symlink" THEN dest[CurrentName].link ELSE NoRoot

\* backups.last().cloned(), NoRoot standing for None
find_latest_backup ==
  IF ~destRoot THEN NoRoot
  ELSE LET backups == SortNames({nm \in DOMAIN dest : dest[nm].kind # "absent" /\ BackupFilter(nm)})
       IN IF backups = <<>> THEN NoRoot ELSE backups[Len(backups)]

(***************************************************************************)
(* actions.rs: BackupStats::new, and the pool's threads at rest.           *)
(***************************************************************************)
NewStats == [total_files |-> 0, copied_new |-> 0, copied_modified |-> 0, linked |-> 0,
             skipped |-> 0, failed |-> 0, bytes_copied |-> 0]

NoTask == FileTask(<<>>, NoPath, NoPath, NoPath)

IdleWorker == [st |-> "idle", task |-> NoTask, action |-> NoAction, res |-> "none", bytes |-> 0]

\* `destination` is the form of the configured destination root: an
\* "absolute" path, or one "relative" to the working directory
NoConfig == [check_content |-> FALSE, exclude_patterns |-> <<>>, dry_run |-> FALSE,
             destination |-> "absolute"]

\* the file .recallignore as the specifications that begin after the
\* configuration was built leave it: not looked at
NoIgnore == [exists |-> FALSE, lines |-> <<>>]

\* no task processed yet
NoneProcessed == [p \in AllPaths |-> 0]

\* prune_backups not called
NoPrune == [st |-> "idle", keep |-> 0, dry_run |-> FALSE, backups |-> <<>>, to_delete |-> <<>>,
            next |-> 1]

\* the state of run_backup's variables while no run is under way
RunAtRest ==
  /\ pc = "idle"
  /\ runs = 0
  /\ clock = 1
  /\ stamp = 0
  /\ latest_backup = NoRoot
  /\ scan = "idle"
  /\ walk = <<>>
  /\ chan = <<>>
  /\ worker = [w \in 1..Workers |-> IdleWorker]
  /\ stats = NewStats
  /\ emitted = <<>>
  /\ failedTasks = {}
  /\ failures = 0
  /\ log = <<>>

(***************************************************************************)
(* executor.rs: process_task, on the tree of the run's temporary directory. *)
(* `fault` is the file operation that fails for a reason outside the model  *)
(* (an I/O error, a full disk, a denied permission): "none", "mkdir" (the   *)
(* directory creation), "op" (the copy, hard link or symlink call) or       *)
(* "times" (set_file_times).                                                *)
(***************************************************************************)
\* mtime of a file that has just been written
CopyTime == 9000000

Prefixes(rel) == {SubSeq(rel, 1, k) : k \in 0..Len(rel)}

\* mutant: a plain create_dir, which needs the parent and fails on a
\* directory that is already there
Mut_create_dir_all_ok_plain(tree, rel) ==
  /\ tree[rel].kind = "absent"
  /\ rel = <<>> \/ tree[Parent(rel)].kind = "dir"

\* fs::create_dir_all succeeds unless a component exists and is no directory
create_dir_all_ok(tree, rel) == \A q \in Prefixes(rel) : tree[q].kind \in {"absent", "dir"}

create_dir_all(tree, rel) ==
  [q \in AllPaths |-> IF q \in Prefixes(rel) /\ tree[q].kind = "absent" THEN DirNode ELSE tree[q]]

Ok(n, tree) == [res |-> "Ok", bytes |-> n, tree |-> tree]

Err(tree) == [res |-> "Err", bytes |-> 0, tree |-> tree]

\* mutant: the copy leaves the destination's mtime at the time of the copy
Mut_CopyFileKeepsCopyTime(t, tree, fault) ==
  LET rel == t.dest_path.rel
      withParent == create_dir_all(tree, Parent(rel))
      from == metadata(t.src_path)
      copied == [withParent EXCEPT ![rel] = FileNode(from.bytes, from.perm, CopyTime, TRUE)]
  IN
  IF fault = "mkdir" \/ ~create_dir_all_ok(tree, Parent(rel)) THEN Err(tree)
  ELSE IF fault = "op" \/ from.kind # "file" \/ ~from.ok \/ tree[rel].kind \in {"dir", "symlink"}
       THEN Err(withParent)
  ELSE IF fault = "times" THEN Err(copied)
  ELSE Ok(Len(from.bytes), copied)

\* lines 128-165
CopyFile(t, tree, fault) ==
  LET rel == t.dest_path.rel
      withParent == create_dir_all(tree, Parent(rel))
      from == metadata(t.src_path)
      copied == [withParent EXCEPT ![rel] = FileNode(from.bytes, from.perm, CopyTime, TRUE)]
      stamped == [withParent EXCEPT ![rel] = FileNode(from.bytes, from.perm, from.mtime, TRUE)]
  IN
  IF fault = "mkdir" \/ ~create_dir_all_ok(tree, Parent(rel)) THEN Err(tree)
  ELSE IF fault = "op" \/ from.kind # "file" \/ ~from.ok \/ tree[rel].kind \in {"dir", "symlink"}
       THEN Err(withParent)
  ELSE IF fault = "times" THEN Err(copied)
  ELSE Ok(Len(from.bytes), stamped)

\* lines 166-175: fs::hard_link links the reference entry itself
LinkFile(t, old, tree, fault) ==
  LET rel == t.dest_path.rel
      withParent == create_dir_all(tree, Parent(rel))
      from == symlink_metadata(old)
  IN
  IF fault = "mkdir" \/ ~create_dir_all_ok(tree, Parent(rel)) THEN Err(tree)
  ELSE IF fault = "op" \/ from.kind \in {"absent", "dir"} \/ tree[rel].kind # "absent"
       THEN Err(withParent)
  ELSE Ok(0, [withParent EXCEPT ![rel] = from])

\* lines 176-199
MakeLink(t, tg, tree, fault) ==
  LET rel == t.dest_path.rel
      withParent == create_dir_all(tree, Parent(rel))
  IN
  IF fault = "mkdir" \/ ~create_dir_all_ok(tree, Parent(rel)) THEN Err(tree)
  ELSE IF fault = "op" \/ tree[rel].kind # "absent" THEN Err(withParent)
  ELSE Ok(0, [withParent EXCEPT ![rel] = LinkNode(tg, TRUE)])

\* lines 200-206
MakeDir(t, tree, fault) ==
  IF fault = "mkdir" \/ ~create_dir_all_ok(tree, t.dest_path.rel) THEN Err(tree)
  ELSE Ok(0, create_dir_all(tree, t.dest_path.rel))

\* mutant: the dry_run flag is not looked at
Mut_process_task_ignores_dry_run(t, a, dry_run, tree, fault) ==
  CASE a.type \in {"CopyNew", "CopyModified"} -> CopyFile(t, tree, fault)
    [] a.type = "Link" -> LinkFile(t, a.path, tree, fault)
    [] a.type = "MakeSymlink" -> MakeLink(t, a.target, tree, fault)
    [] a.type = "CreateDir" -> MakeDir(t, tree, fault)
    [] OTHER -> Ok(0, tree)

process_task(t, a, dry_run, tree, fault) ==
  IF dry_run THEN Ok(0, tree)
  ELSE CASE a.type \in {"CopyNew", "CopyModified"} -> CopyFile(t, tree, fault)
         [] a.type = "Link" -> LinkFile(t, a.path, tree, fault)
         [] a.type = "MakeSymlink" -> MakeLink(t, a.target, tree, fault)
         [] a.type = "CreateDir" -> MakeDir(t, tree, fault)
         [] OTHER -> Ok(0, tree)

\* the file operations of an action, any of which can fail
FaultsOf(a, dry_run) ==
  IF dry_run THEN {}
  ELSE CASE a.type \in {"CopyNew", "CopyModified"} -> {"op", "times"}
         [] a.type \in {"Link", "MakeSymlink"} -> {"op"}
         [] a.type = "CreateDir" -> {"mkdir"}
         [] OTHER -> {}

\* mutant: a directory that was created is counted as skipped
Mut_RecordResultDirAsSkipped(s, a, res, bytes) ==
  LET counted == [s EXCEPT !.total_files = @ + 1] IN
  IF res = "Err" THEN [counted EXCEPT !.failed = @ + 1]
  ELSE CASE a.type = "CopyNew" ->
              [counted EXCEPT !.copied_new = @ + 1, !.bytes_copied = @ + bytes]
         [] a.type = "CopyModified" ->
              [counted EXCEPT !.copied_modified = @ + 1, !.bytes_copied = @ + bytes]
         [] a.type \in {"Link", "MakeSymlink"} -> [counted EXCEPT !.linked = @ + 1]
         [] a.type = "CreateDir" -> [counted EXCEPT !.total_files = @ - 1, !.skipped = @ + 1]
         [] OTHER -> [counted EXCEPT !.skipped = @ + 1]

\* mutant: a failed task is counted under its action as well
Mut_RecordResultCountsFailureTwice(s, a, res, bytes) ==
  LET counted == [s EXCEPT !.total_files = @ + 1, !.failed = @ + (IF res = "Err" THEN 1 ELSE 0)] IN
  CASE a.type = "CopyNew" ->
         [counted EXCEPT !.copied_new = @ + 1, !.bytes_copied = @ + bytes]
    [] a.type = "CopyModified" ->
         [counted EXCEPT !.copied_modified = @ + 1, !.bytes_copied = @ + bytes]
    [] a.type \in {"Link", "MakeSymlink"} -> [counted EXCEPT !.linked = @ + 1]
    [] a.type = "CreateDir" -> [counted EXCEPT !.total_files = @ - 1]
    [] OTHER -> [counted EXCEPT !.skipped = @ + 1]

\* mutant: a directory that was created stays counted in total_files
Mut_RecordResultKeepsDir(s, a, res, bytes) ==
  LET counted == [s EXCEPT !.total_files = @ + 1] IN
  IF res = "Err" THEN [counted EXCEPT !.failed = @ + 1]
  ELSE CASE a.type = "CopyNew" ->
              [counted EXCEPT !.copied_new = @ + 1, !.bytes_copied = @ + bytes]
         [] a.type = "CopyModified" ->
              [counted EXCEPT !.copied_modified = @ + 1, !.bytes_copied = @ + bytes]
         [] a.type \in {"Link", "MakeSymlink"} -> [counted EXCEPT !.linked = @ + 1]
         [] a.type = "CreateDir" -> counted
         [] OTHER -> [counted EXCEPT !.skipped = @ + 1]

\* executor.rs lines 74-97: the update made under the stats lock
RecordResult(s, a, res, bytes) ==
  LET counted == [s EXCEPT !.total_files = @ + 1] IN
  IF res = "Err" THEN [counted EXCEPT !.failed = @ + 1]
  ELSE CASE a.type = "CopyNew" ->
              [counted EXCEPT !.copied_new = @ + 1, !.bytes_copied = @ + bytes]
         [] a.type = "CopyModified" ->
              [counted EXCEPT !.copied_modified = @ + 1, !.bytes_copied = @ + bytes]
         [] a.type \in {"Link", "MakeSymlink"} -> [counted EXCEPT !.linked = @ + 1]
         [] a.type = "CreateDir" -> [counted EXCEPT !.total_files = @ - 1]
         [] OTHER -> [counted EXCEPT !.skipped = @ + 1]

(***************************************************************************)
(* Spec: run_backup (main.rs lines 143-291), up to MaxRuns times.           *)
(***************************************************************************)
\* main.rs lines 173-176: timestamp_folder_name, temp_folder_name
TempNameOf(ts) == StampName(ts, TRUE)

TempName == TempNameOf(stamp)

FinalName == StampName(stamp, FALSE)

\* the symbolic links of the model's source trees: to the file, to the
\* directory, and to the file with a target that cannot be read
SourceLinks == {<<<<"d", "g">>, TRUE>>, <<<<"d">>, TRUE>>, <<<<"d", "g">>, FALSE>>}

\* the source trees of the model: a directory holding a file, and beside it a
\* symbolic link
SourceTree(tg, r) ==
  [p \in AllPaths |->
     CASE p = <<>> -> DirNode
       [] p = <<"d">> -> DirNode
       [] p = <<"d", "g">> -> FileNode(<<1, 2>>, 420, 2000000, TRUE)
       [] OTHER -> LinkNode(tg, r)]

\* an older generation, made before the link was there; the file has been
\* touched since (same bytes, an mtime two seconds later)
OlderTree ==
  [p \in AllPaths |->
     CASE p = <<>> -> DirNode
       [] p = <<"d">> -> DirNode
       [] p = <<"d", "g">> -> FileNode(<<1, 2>>, 420, 0, TRUE)
       [] OTHER -> NoNode]

\* the exclusion lists of the model: none, the directory by its name, and a
\* malformed pattern followed by one that matches the file inside the directory
ExcludeChoices ==
  { <<>>,
    << <<"d">> >>,
    << <<"[">>, <<"*", "g">> >> }

Init ==
  /\ RunAtRest
  /\ platform = "unix"
  /\ \E l \in SourceLinks : src = SourceTree(l[1], l[2])
  /\ \E ex \in ExcludeChoices : config = [NoConfig EXCEPT !.exclude_patterns = ex]
  /\ \/ /\ destRoot = FALSE
        /\ dest = [nm \in Names |-> NoEntry]
     \/ /\ destRoot = TRUE
        /\ dest = [nm \in Names |-> IF nm = StampName(1, FALSE) THEN DirEntry(OlderTree, 0) ELSE NoEntry]
  /\ task = NoTask
  /\ action = NoAction
  /\ prune = NoPrune
  /\ processed = NoneProcessed
  /\ ignore = NoIgnore

\* main.rs lines 143-246: the timestamp, the destination root, the latest
\* backup, the temporary directory (create_dir_all: one left under the same
\* name by an earlier run is taken over), the channel and the scanner thread
StartRun ==
  /\ pc \in {"idle", "done", "failed", "aborted"}
  /\ runs < MaxRuns
  /\ \E ts \in clock..MaxStamp, dry \in BOOLEAN, chk \in BOOLEAN :
       /\ clock' = ts
       /\ stamp' = ts
       /\ config' = [config EXCEPT !.dry_run = dry, !.check_content = chk]
       /\ destRoot' = (destRoot \/ ~dry)
       /\ latest_backup' = find_latest_backup
       /\ dest' = IF dry THEN dest
                  ELSE IF dest[TempNameOf(ts)].kind = "dir"
                       THEN [dest EXCEPT ![TempNameOf(ts)].owner = runs + 1]
                  ELSE [dest EXCEPT ![TempNameOf(ts)] =
                          DirEntry([EmptyTree EXCEPT ![<<>>] = DirNode], runs + 1)]
  /\ runs' = runs + 1
  /\ pc' = "spawned"
  /\ scan' = "walking"
  /\ walk' = << <<>> >>
  /\ chan' = <<>>
  /\ worker' = [w \in 1..Workers |-> IdleWorker]
  /\ stats' = NewStats
  /\ emitted' = <<>>
  /\ failedTasks' = {}
  /\ processed' = NoneProcessed
  /\ UNCHANGED <<src, platform, failures, log, task, action, prune, ignore>>

\* the scanner thread runs from its spawn until scan_source returns, whether
\* or not execute has begun, and also after execute has returned an error
ScannerRuns == scan = "walking" /\ pc \in {"spawned", "pipeline", "aborted"}

\* the receiving end of the channel exists: rx is dropped when execute returns
ReceiverAlive == pc \in {"spawned", "pipeline"}

\* mutant: an excluded directory is left out but still descended into
Mut_ScanFilterKeepsChildren ==
  /\ ScannerRuns
  /\ walk # <<>>
  /\ ~IsWalkErr(Head(walk))
  /\ ~filter_entry(Head(walk), config)
  /\ walk' = Descend(src, Head(walk), Tail(walk))
  /\ UNCHANGED <<fsVars, platform, config, pc, runs, clock, stamp, latest_backup, scan, chan,
                 worker, stats, emitted, failedTasks, failures, log, task, action, prune, processed,
                 ignore>>

\* scanner.rs lines 106-113: filter_entry drops the entry and, for a
\* directory, everything below it
ScanFilter ==
  /\ ScannerRuns
  /\ walk # <<>>
  /\ ~IsWalkErr(Head(walk))
  /\ ~filter_entry(Head(walk), config)
  /\ walk' = Tail(walk)
  /\ UNCHANGED <<fsVars, platform, config, pc, runs, clock, stamp, latest_backup, scan, chan,
                 worker, stats, emitted, failedTasks, failures, log, task, action, prune, processed,
                 ignore>>

\* scanner.rs lines 125-140: the task of one entry and its action
TaskOf(rel) ==
  FileTask(rel, PathOf(SourceRoot, rel), PathOf(TempName, rel),
           IF latest_backup = NoRoot THEN NoPath ELSE PathOf(latest_backup, rel))

\* mutant: send never blocks, the channel takes one pair more than it holds
Mut_ScanSendUnbounded ==
  /\ ScannerRuns
  /\ ReceiverAlive
  /\ walk # <<>>
  /\ ~IsWalkErr(Head(walk))
  /\ filter_entry(Head(walk), config)
  /\ Len(chan) <= ChanCap
  /\ LET t == TaskOf(Head(walk))
         pair == [task |-> t, action |-> decide_action(t, config)]
     IN /\ chan' = Append(chan, pair)
        /\ emitted' = Append(emitted, pair)
  /\ walk' = Descend(src, Head(walk), Tail(walk))
  /\ UNCHANGED <<fsVars, platform, config, pc, runs, clock, stamp, latest_backup, scan,
                 worker, stats, failedTasks, failures, log, task, action, prune, processed,
                 ignore>>

\* scanner.rs lines 116-146: one turn of the loop; send blocks while the
\* channel is full
ScanSend ==
  /\ ScannerRuns
  /\ ReceiverAlive
  /\ walk # <<>>
  /\ ~IsWalkErr(Head(walk))
  /\ filter_entry(Head(walk), config)
  /\ Len(chan) < ChanCap
  /\ LET t == TaskOf(Head(walk))
         pair == [task |-> t, action |-> decide_action(t, config)]
     IN /\ chan' = Append(chan, pair)
        /\ emitted' = Append(emitted, pair)
  /\ walk' = Descend(src, Head(walk), Tail(walk))
  /\ UNCHANGED <<fsVars, platform, config, pc, runs, clock, stamp, latest_backup, scan,
                 worker, stats, failedTasks, failures, log, task, action, prune, processed,
                 ignore>>

\* mutant: the error of send is ignored and the walk goes on
Mut_ScanSendFailsWalksOn ==
  /\ ScannerRuns
  /\ ~ReceiverAlive
  /\ walk # <<>>
  /\ ~IsWalkErr(Head(walk))
  /\ filter_entry(Head(walk), config)
  /\ walk' = Descend(src, Head(walk), Tail(walk))
  /\ UNCHANGED <<fsVars, platform, config, pc, runs, clock, stamp, latest_backup, scan, chan,
                 worker, stats, emitted, failedTasks, failures, log, task, action, prune,
                 processed, ignore>>

\* scanner.rs lines 144-148: the receiving end is gone, send returns Err at
\* once, the loop is left and scan_source returns Ok with the rest of the walk
\* unvisited
ScanSendFails ==
  /\ ScannerRuns
  /\ ~ReceiverAlive
  /\ walk # <<>>
  /\ ~IsWalkErr(Head(walk))
  /\ filter_entry(Head(walk), config)
  /\ scan' = "finished"
  /\ UNCHANGED <<fsVars, platform, config, pc, runs, clock, stamp, latest_backup, walk, chan,
                 worker, stats, emitted, failedTasks, failures, log, task, action, prune,
                 processed, ignore>>

\* mutant: an error of the walk ends the scan
Mut_ScanWalkErrorAborts ==
  /\ ScannerRuns
  /\ walk # <<>>
  /\ IsWalkErr(Head(walk))
  /\ walk' = <<>>
  /\ scan' = "finished"
  /\ UNCHANGED <<fsVars, platform, config, pc, runs, clock, stamp, latest_backup, chan,
                 worker, stats, emitted, failedTasks, failures, log, task, action, prune,
                 processed, ignore>>

\* scanner.rs lines 117-123: the walker yields an Err; it is reported on
\* stderr and the loop goes on with the next item
ScanWalkError ==
  /\ ScannerRuns
  /\ walk # <<>>
  /\ IsWalkErr(Head(walk))
  /\ walk' = Tail(walk)
  /\ UNCHANGED <<fsVars, platform, config, pc, runs, clock, stamp, latest_backup, scan, chan,
                 worker, stats, emitted, failedTasks, failures, log, task, action, prune,
                 processed, ignore>>

\* mutant: the walk is over but the sender is kept
Mut_ScanFinishKeepsSender ==
  /\ ScannerRuns
  /\ walk = <<>>
  /\ UNCHANGED vars

\* scanner.rs line 148: the walk is over, scan_source returns and drops tx
ScanFinish ==
  /\ ScannerRuns
  /\ walk = <<>>
  /\ scan' = "finished"
  /\ UNCHANGED <<fsVars, platform, config, pc, runs, clock, stamp, latest_backup, walk, chan,
                 worker, stats, emitted, failedTasks, failures, log, task, action, prune, processed,
                 ignore>>

\* what a finished run leaves in the log
LogEntry(result) ==
  [stamp |-> stamp, dry_run |-> config.dry_run, check_content |-> config.check_content,
   stats |-> stats, result |-> result, tasks |-> Len(emitted)]

\* executor.rs lines 63-67 and main.rs line 250: the pool is built, or the
\* build fails, execute returns the error (dropping rx with whatever is in the
\* channel) and run_backup returns it without joining the scanner thread
PoolBuild ==
  /\ pc = "spawned"
  /\ \/ /\ pc' = "pipeline"
        /\ UNCHANGED <<chan, failures, log>>
     \/ /\ failures < MaxFailures
        /\ failures' = failures + 1
        /\ pc' = "aborted"
        /\ chan' = <<>>
        /\ log' = Append(log, LogEntry("Err"))
  /\ UNCHANGED <<fsVars, platform, config, runs, clock, stamp, latest_backup, scan, walk,
                 worker, stats, emitted, failedTasks, task, action, prune, processed,
                 ignore>>

\* mutant: a received pair stays in the channel for the next thread
Mut_WorkerTakeLeavesPair(w) ==
  /\ pc = "pipeline"
  /\ worker[w].st = "idle"
  /\ \A v \in 1..(w - 1) : worker[v].st # "idle"
  /\ chan # <<>>
  /\ worker' = [worker EXCEPT ![w] = [IdleWorker EXCEPT !.st = "taken",
                                                        !.task = Head(chan).task,
                                                        !.action = Head(chan).action]]
  /\ chan' = IF \E v \in 1..Workers : v # w /\ worker[v].st = "idle" THEN chan ELSE Tail(chan)
  /\ UNCHANGED <<fsVars, platform, config, pc, runs, clock, stamp, latest_backup, scan, walk,
                 stats, emitted, failedTasks, failures, log, task, action, prune, processed,
                 ignore>>

\* executor.rs line 71: a pool thread takes the next pair from the channel
\* (the threads are alike: of the idle ones the first is taken to be the taker)
WorkerTake(w) ==
  /\ pc = "pipeline"
  /\ worker[w].st = "idle"
  /\ \A v \in 1..(w - 1) : worker[v].st # "idle"
  /\ chan # <<>>
  /\ worker' = [worker EXCEPT ![w] = [IdleWorker EXCEPT !.st = "taken",
                                                        !.task = Head(chan).task,
                                                        !.action = Head(chan).action]]
  /\ chan' = Tail(chan)
  /\ UNCHANGED <<fsVars, platform, config, pc, runs, clock, stamp, latest_backup, scan, walk,
                 stats, emitted, failedTasks, failures, log, task, action, prune, processed,
                 ignore>>

\* the generation in which the inode behind a reference path was made
OriginOf(d, path) ==
  IF d[path.root].shares[path.rel] # NoRoot THEN d[path.root].shares[path.rel] ELSE path.root

\* the names under which the inode of the temporary directory's entry rel is
\* also found: the same path in the generation of its origin and in every
\* directory that holds a hard link to it
SameInode(d, nm, rel) ==
  LET origin == d[TempName].shares[rel] IN
  /\ nm # TempName
  /\ origin # NoRoot
  /\ d[nm].kind = "dir"
  /\ d[nm].tree[rel].kind = "file"
  /\ nm = origin \/ d[nm].shares[rel] = origin

\* what process_task leaves under the destination root.  fs::hard_link
\* (executor.rs lines 171-173) gives the inode of the reference one more name;
\* fs::copy and set_file_times (lines 135-158) write into the file that is at
\* the destination, and with it into every other name of its inode
Written(d, t, a, out) ==
  LET rel == t.dest_path.rel
      wrote == /\ a.type \in {"CopyNew", "CopyModified"}
               /\ d[TempName].tree[rel].kind = "file"
               /\ out.tree[rel] # d[TempName].tree[rel]
  IN [nm \in DOMAIN d |->
        IF nm = TempName
        THEN [d[nm] EXCEPT !.tree = out.tree,
                           !.shares[rel] = IF a.type = "Link" /\ out.res = "Ok"
                                           THEN OriginOf(d, a.path) ELSE @]
        ELSE IF wrote /\ SameInode(d, nm, rel)
             THEN [d[nm] EXCEPT !.tree[rel] = out.tree[rel]]
        ELSE d[nm]]

\* executor.rs line 72: process_task
WorkerProcess(w) ==
  /\ pc = "pipeline"
  /\ worker[w].st = "taken"
  /\ \E fault \in {"none"} \cup (IF failures < MaxFailures
                                 THEN FaultsOf(worker[w].action, config.dry_run) ELSE {}) :
       LET out == process_task(worker[w].task, worker[w].action, config.dry_run,
                               dest[TempName].tree, fault)
       IN /\ worker' = [worker EXCEPT ![w].st = "processed", ![w].res = out.res,
                                      ![w].bytes = out.bytes]
          /\ dest' = IF config.dry_run THEN dest
                     ELSE Written(dest, worker[w].task, worker[w].action, out)
          /\ failures' = IF fault = "none" THEN failures ELSE failures + 1
          /\ failedTasks' = IF out.res = "Err" THEN failedTasks \cup {worker[w].task.rel_path}
                            ELSE failedTasks
  /\ processed' = [processed EXCEPT ![worker[w].task.rel_path] = @ + 1]
  /\ UNCHANGED <<src, destRoot, platform, config, pc, runs, clock, stamp, latest_backup, scan,
                 walk, chan, stats, emitted, log, task, action, prune, ignore>>

\* mutant: no lock; of two threads that count at once one update is lost
Mut_WorkerRecordUnlocked(w) ==
  /\ pc = "pipeline"
  /\ worker[w].st = "processed"
  /\ stats' = IF \E v \in 1..Workers : v # w /\ worker[v].st = "processed"
              THEN stats
              ELSE RecordResult(stats, worker[w].action, worker[w].res, worker[w].bytes)
  /\ worker' = [worker EXCEPT ![w] = IdleWorker]
  /\ UNCHANGED <<fsVars, platform, config, pc, runs, clock, stamp, latest_backup, scan, walk,
                 chan, emitted, failedTasks, failures, log, task, action, prune, processed,
                 ignore>>

\* executor.rs lines 74-98: the result is counted under the stats lock
WorkerRecord(w) ==
  /\ pc = "pipeline"
  /\ worker[w].st = "processed"
  /\ stats' = RecordResult(stats, worker[w].action, worker[w].res, worker[w].bytes)
  /\ worker' = [worker EXCEPT ![w] = IdleWorker]
  /\ UNCHANGED <<fsVars, platform, config, pc, runs, clock, stamp, latest_backup, scan, walk,
                 chan, emitted, failedTasks, failures, log, task, action, prune, processed,
                 ignore>>

\* mutant: execute returns once the scanner has finished, whatever is pending
Mut_ExecuteReturnBeforeDrain ==
  /\ pc = "pipeline"
  /\ scan = "finished"
  /\ pc' = "joined"
  /\ UNCHANGED <<fsVars, platform, config, runs, clock, stamp, latest_backup, scan, walk, chan,
                 worker, stats, emitted, failedTasks, failures, log, task, action, prune, processed,
                 ignore>>

\* executor.rs line 107 and main.rs lines 250-256: the channel is closed and
\* drained, every pool thread is done, execute returns and the scanner thread
\* is joined
ExecuteReturn ==
  /\ pc = "pipeline"
  /\ scan = "finished"
  /\ chan = <<>>
  /\ \A w \in 1..Workers : worker[w].st = "idle"
  /\ pc' = "joined"
  /\ UNCHANGED <<fsVars, platform, config, runs, clock, stamp, latest_backup, scan, walk, chan,
                 worker, stats, emitted, failedTasks, failures, log, task, action, prune, processed,
                 ignore>>

\* main.rs lines 271-291: a dry run commits nothing and returns Ok
DryRunFinish ==
  /\ pc = "joined"
  /\ config.dry_run
  /\ pc' = "done"
  /\ log' = Append(log, LogEntry("Ok"))
  /\ UNCHANGED <<fsVars, platform, config, runs, clock, stamp, latest_backup, scan, walk, chan,
                 worker, stats, emitted, failedTasks, failures, task, action, prune, processed,
                 ignore>>

\* mutant: the old `current` is removed before the final name is looked at
Mut_CommitAbortAfterUnlink ==
  /\ pc = "joined"
  /\ ~config.dry_run
  /\ EntryIsDir(FinalName) \/ dest[FinalName].kind # "absent"
  /\ dest' = [dest EXCEPT ![CurrentName] = NoEntry]
  /\ pc' = "failed"
  /\ log' = Append(log, LogEntry("Err"))
  /\ UNCHANGED <<src, destRoot, platform, config, runs, clock, stamp, latest_backup, scan, walk,
                 chan, worker, stats, emitted, failedTasks, failures, task, action, prune, processed,
                 ignore>>

\* executor.rs lines 226-231: the final name is taken, commit_backup returns Err
CommitAbort ==
  /\ pc = "joined"
  /\ ~config.dry_run
  /\ EntryIsDir(FinalName) \/ dest[FinalName].kind # "absent"
  /\ pc' = "failed"
  /\ log' = Append(log, LogEntry("Err"))
  /\ UNCHANGED <<fsVars, platform, config, runs, clock, stamp, latest_backup, scan, walk, chan,
                 worker, stats, emitted, failedTasks, failures, task, action, prune, processed,
                 ignore>>

\* the rename of executor.rs lines 234-235
rename(d, from, to) == [d EXCEPT ![to] = d[from], ![from] = NoEntry]

\* mutant: a rename that reports failure has moved the directory all the same
Mut_CommitRenameMovesOnFailure ==
  /\ pc = "joined"
  /\ ~config.dry_run
  /\ dest[FinalName].kind = "absent"
  /\ \/ /\ dest' = rename(dest, TempName, FinalName)
        /\ pc' = "renamed"
        /\ UNCHANGED <<failures, log>>
     \/ /\ failures < MaxFailures
        /\ failures' = failures + 1
        /\ pc' = "failed"
        /\ log' = Append(log, LogEntry("Err"))
        /\ dest' = rename(dest, TempName, FinalName)
  /\ UNCHANGED <<src, destRoot, platform, config, runs, clock, stamp, latest_backup, scan, walk,
                 chan, worker, stats, emitted, failedTasks, task, action, prune, processed,
                 ignore>>

\* executor.rs lines 234-235: the rename, which can fail
CommitRename ==
  /\ pc = "joined"
  /\ ~config.dry_run
  /\ dest[FinalName].kind = "absent"
  /\ \/ /\ dest' = rename(dest, TempName, FinalName)
        /\ pc' = "renamed"
        /\ UNCHANGED <<failures, log>>
     \/ /\ failures < MaxFailures
        /\ failures' = failures + 1
        /\ pc' = "failed"
        /\ log' = Append(log, LogEntry("Err"))
        /\ UNCHANGED dest
  /\ UNCHANGED <<src, destRoot, platform, config, runs, clock, stamp, latest_backup, scan, walk,
                 chan, worker, stats, emitted, failedTasks, task, action, prune, processed,
                 ignore>>

\* executor.rs lines 238-255: the old `current` is removed; a failure of the
\* removal is dropped by .ok()
CommitUnlink ==
  /\ pc = "renamed"
  /\ \/ /\ dest' = [dest EXCEPT ![CurrentName] = NoEntry]
        /\ UNCHANGED failures
     \/ /\ dest[CurrentName].kind # "absent"
        /\ failures < MaxFailures
        /\ failures' = failures + 1
        /\ UNCHANGED dest
  /\ pc' = "unlinked"
  /\ UNCHANGED <<src, destRoot, platform, config, runs, clock, stamp, latest_backup, scan, walk,
                 chan, worker, stats, emitted, failedTasks, log, task, action, prune, processed,
                 ignore>>

\* what a symbolic link created under the destination root with
\* final_path as its target leads to: final_path is the configured destination
\* joined with the name, and a relative target is resolved in the link's own
\* directory, the destination root, where it names nothing
LinkTargetOf(cfg, nm) ==
  IF cfg.destination = "absolute" THEN nm ELSE [nm EXCEPT !.base = "relative"]

\* mutant: a failure to create `current` is only reported, on every platform
Mut_CommitLinkWarnsOnly ==
  /\ pc = "unlinked"
  /\ \/ /\ dest[CurrentName].kind = "absent"
        /\ dest' = [dest EXCEPT ![CurrentName] = LinkEntry(LinkTargetOf(config, FinalName))]
        /\ UNCHANGED failures
     \/ /\ dest[CurrentName].kind # "absent" \/ failures < MaxFailures
        /\ failures' = IF dest[CurrentName].kind # "absent" THEN failures ELSE failures + 1
        /\ UNCHANGED dest
  /\ pc' = "done"
  /\ log' = Append(log, LogEntry("Ok"))
  /\ UNCHANGED <<src, destRoot, platform, config, runs, clock, stamp, latest_backup, scan, walk,
                 chan, worker, stats, emitted, failedTasks, task, action, prune, processed,
                 ignore>>

\* executor.rs lines 258-273: the new `current`; on unix a failure is returned,
\* on windows it is only reported
CommitLink ==
  /\ pc = "unlinked"
  /\ \/ /\ dest[CurrentName].kind = "absent"
        /\ dest' = [dest EXCEPT ![CurrentName] = LinkEntry(LinkTargetOf(config, FinalName))]
        /\ pc' = "done"
        /\ log' = Append(log, LogEntry("Ok"))
        /\ UNCHANGED failures
     \/ /\ dest[CurrentName].kind # "absent" \/ failures < MaxFailures
        /\ failures' = IF dest[CurrentName].kind # "absent" THEN failures ELSE failures + 1
        /\ pc' = IF platform = "unix" THEN "failed" ELSE "done"
        /\ log' = Append(log, LogEntry(IF platform = "unix" THEN "Err" ELSE "Ok"))
        /\ UNCHANGED dest
  /\ UNCHANGED <<src, destRoot, platform, config, runs, clock, stamp, latest_backup, scan, walk,
                 chan, worker, stats, emitted, failedTasks, task, action, prune, processed,
                 ignore>>

\* the process stops where it stands; what it wrote stays on disk
Crash ==
  /\ pc \in {"spawned", "pipeline", "joined", "renamed", "unlinked"}
  /\ pc' = "crashed"
  /\ scan' = "idle"
  /\ walk' = <<>>
  /\ chan' = <<>>
  /\ worker' = [w \in 1..Workers |-> IdleWorker]
  /\ stats' = NewStats
  /\ emitted' = <<>>
  /\ failedTasks' = {}
  /\ processed' = NoneProcessed
  /\ UNCHANGED <<fsVars, platform, config, runs, clock, stamp, latest_backup, failures, log,
                 task, action, prune, ignore>>

Next ==
  \/ StartRun
  \/ ScanFilter
  \/ ScanSend
  \/ ScanSendFails
  \/ ScanFinish
  \/ PoolBuild
  \/ \E w \in 1..Workers : WorkerTake(w)
  \/ \E w \in 1..Workers : WorkerProcess(w)
  \/ \E w \in 1..Workers : WorkerRecord(w)
  \/ ExecuteReturn
  \/ DryRunFinish
  \/ CommitAbort
  \/ CommitRename
  \/ CommitUnlink
  \/ CommitLink
  \/ Crash

Spec == Init /\ [][Next]_vars

\* C16: at every moment, for no timestamp T do both the committed directory T
\* and the in-progress directory T.partial exist, also after a commit that
\* aborts because the final name is already taken.
C16_NeverBothNames ==
  \A t \in 1..MaxStamp :
    ~(dest[StampName(t, FALSE)].kind = "dir" /\ dest[StampName(t, TRUE)].kind = "dir")

(***************************************************************************)
(* SpecLive: the pipeline of one run, from the spawn of the scanner thread   *)
(* to the return of execute, with the threads scheduled fairly: the scanner  *)
(* thread, each pool thread and the main thread take a step they can take.   *)
(***************************************************************************)
ScannerStep == ScanFilter \/ ScanSend \/ ScanSendFails \/ ScanFinish

WorkerStep(w) == WorkerTake(w) \/ WorkerProcess(w) \/ WorkerRecord(w)

MainStep == PoolBuild \/ ExecuteReturn

FirstRun == runs = 0 /\ StartRun

NextLive ==
  \/ FirstRun
  \/ ScannerStep
  \/ \E w \in 1..Workers : WorkerStep(w)
  \/ MainStep

Fairness ==
  /\ WF_vars(ScannerStep)
  /\ \A w \in 1..Workers : WF_vars(WorkerStep(w))
  /\ WF_vars(MainStep)

SpecLive == Init /\ [][NextLive]_vars /\ Fairness

\* C24: the scanner finishes and drops the sender, execute drains the channel
\* and returns, and the run reaches the commit step (or has returned the
\* error of a pool that could not be built); no interleaving deadlocks.
C24_PipelineTerminates ==
  /\ (pc = "spawned") ~> (scan = "finished")
  /\ (pc = "spawned") ~> (pc = "aborted" \/ (pc = "joined" /\ chan = <<>>))
  /\ (pc = "pipeline") ~> (pc = "joined")

\* the scanner is blocked on a full channel while a pool thread is at work
C24_Witness ==
  /\ pc = "pipeline"
  /\ Len(chan) = ChanCap
  /\ scan = "walking"
  /\ walk # <<>>
  /\ ~IsWalkErr(Head(walk))
  /\ filter_entry(Head(walk), config)
  /\ \E w \in 1..Workers : worker[w].st = "taken"

(***************************************************************************)
(* SpecCommit: commit_backup alone, called by the first run of an empty     *)
(* source directory, on both build targets, with the destination root given *)
(* as an absolute or as a relative path, and over every destination the     *)
(* run can find: with or without an older generation, with or without a     *)
(* directory under the run's own final name, and with `current` absent, a   *)
(* link left by an earlier commit, or a directory.                          *)
(***************************************************************************)
EmptySource == [EmptyTree EXCEPT ![<<>>] = DirNode]

\* the pair scan_source sends for the root of an empty source when the
\* latest backup is `ref`
RootPair(ref) ==
  LET t == FileTask(<<>>, PathOf(SourceRoot, <<>>), PathOf(StampName(2, TRUE), <<>>),
                    IF ref = NoRoot THEN NoPath ELSE PathOf(ref, <<>>))
  IN [task |-> t, action |-> CreateDir]

\* what `current` can be before the commit
CurrentChoices(cfg) ==
  {NoEntry, LinkEntry(LinkTargetOf(cfg, StampName(1, FALSE))), DirEntry(EmptySource, 0)}

InitCommit ==
  /\ pc = "joined"
  /\ runs = 1
  /\ clock = 2
  /\ stamp = 2
  /\ scan = "finished"
  /\ walk = <<>>
  /\ chan = <<>>
  /\ worker = [w \in 1..Workers |-> IdleWorker]
  /\ stats = NewStats
  /\ failedTasks = {}
  /\ failures = 0
  /\ log = <<>>
  /\ platform \in {"unix", "windows"}
  /\ \E form \in {"absolute", "relative"} : config = [NoConfig EXCEPT !.destination = form]
  /\ src = EmptySource
  /\ destRoot = TRUE
  /\ \E older \in {NoEntry, DirEntry(EmptySource, 0)},
        taken \in {NoEntry, DirEntry(EmptySource, 0)},
        cur \in CurrentChoices(config) :
       dest = [nm \in Names |->
                 CASE nm = StampName(1, FALSE) -> older
                   [] nm = StampName(2, FALSE) -> taken
                   [] nm = StampName(2, TRUE) -> DirEntry(EmptySource, 1)
                   [] nm = CurrentName -> cur
                   [] OTHER -> NoEntry]
  /\ latest_backup = IF dest[StampName(2, FALSE)].kind = "dir" THEN StampName(2, FALSE)
                     ELSE IF dest[StampName(1, FALSE)].kind = "dir" THEN StampName(1, FALSE)
                     ELSE NoRoot
  /\ emitted = <<RootPair(latest_backup)>>
  /\ task = NoTask
  /\ action = NoAction
  /\ prune = NoPrune
  /\ processed = NoneProcessed
  /\ ignore = NoIgnore

NextCommit ==
  \/ CommitAbort
  \/ CommitRename
  \/ CommitUnlink
  \/ CommitLink
  \/ Crash

SpecCommit == InitCommit /\ [][NextCommit]_vars

(***************************************************************************)
(* SpecPrune: prune_backups alone, on a destination root that holds any     *)
(* mix of PruneNames' entries, for every keep-count up to MaxKeep, with and  *)
(* without dry_run.                                                         *)
(***************************************************************************)
\* what can lie under each name before prune_backups is called
PruneChoices(nm) ==
  CASE nm = StampName(2, FALSE) -> {NoEntry, DirEntry(EmptySource, 0), FileEntry}
    [] nm = StampName(10, FALSE) -> {NoEntry, DirEntry(EmptySource, 0), LinkEntry(NotesName)}
    [] nm = CurrentName -> {NoEntry, LinkEntry(StampName(10, FALSE)), DirEntry(EmptySource, 0)}
    [] OTHER -> {NoEntry, DirEntry(EmptySource, 0)}

InitPrune ==
  /\ RunAtRest
  /\ platform = "unix"
  /\ config = NoConfig
  /\ src = EmptySource
  /\ destRoot = TRUE
  /\ dest \in [PruneNames -> UNION {PruneChoices(nm) : nm \in PruneNames}]
  /\ \A nm \in PruneNames : dest[nm] \in PruneChoices(nm)
  /\ task = NoTask
  /\ action = NoAction
  /\ \E k \in 0..MaxKeep, dry \in BOOLEAN :
       prune = [NoPrune EXCEPT !.st = "called", !.keep = k, !.dry_run = dry]
  /\ processed = NoneProcessed
  /\ ignore = NoIgnore

\* mutant: the candidates are taken from the end of the listing
Mut_PruneListNewest ==
  /\ prune.st = "called"
  /\ LET backups == find_all_backups IN
     IF Len(backups) <= prune.keep
     THEN prune' = [prune EXCEPT !.st = "done", !.backups = backups]
     ELSE prune' = [prune EXCEPT !.st = "deleting", !.backups = backups,
                                 !.to_delete = SubSeq(backups, prune.keep + 1, Len(backups))]
  /\ UNCHANGED <<fsVars, platform, config, runVars, task, action, processed, ignore>>

\* prune.rs lines 81-104: the listing, the early return, the candidates
PruneList ==
  /\ prune.st = "called"
  /\ LET backups == find_all_backups IN
     IF Len(backups) <= prune.keep
     THEN prune' = [prune EXCEPT !.st = "done", !.backups = backups]
     ELSE prune' = [prune EXCEPT !.st = "deleting", !.backups = backups,
                                 !.to_delete = SubSeq(backups, 1, Len(backups) - prune.keep)]
  /\ UNCHANGED <<fsVars, platform, config, runVars, task, action, processed, ignore>>

\* prune.rs lines 107-119: one turn of the loop; remove_dir_all can fail
PruneDelete ==
  /\ prune.st = "deleting"
  /\ prune.next <= Len(prune.to_delete)
  /\ LET nm == prune.to_delete[prune.next] IN
     IF prune.dry_run
     THEN /\ prune' = [prune EXCEPT !.next = @ + 1]
          /\ UNCHANGED <<dest, failures>>
     ELSE \/ /\ dest' = [dest EXCEPT ![nm] = NoEntry]
             /\ prune' = [prune EXCEPT !.next = @ + 1]
             /\ UNCHANGED failures
          \/ /\ failures < MaxFailures
             /\ failures' = failures + 1
             /\ prune' = [prune EXCEPT !.st = "failed"]
             /\ UNCHANGED dest
  /\ UNCHANGED <<src, destRoot, platform, config, pc, runs, clock, stamp, latest_backup, scan,
                 walk, chan, worker, stats, emitted, failedTasks, log, task, action, processed,
                 ignore>>

\* prune.rs lines 121-130: the loop is over, Ok(())
PruneReturn ==
  /\ prune.st = "deleting"
  /\ prune.next > Len(prune.to_delete)
  /\ prune' = [prune EXCEPT !.st = "done"]
  /\ UNCHANGED <<fsVars, platform, config, runVars, task, action, processed, ignore>>

NextPrune ==
  \/ PruneList
  \/ PruneDelete
  \/ PruneReturn

SpecPrune == InitPrune /\ [][NextPrune]_vars

(***************************************************************************)
(* Properties of Spec.                                                     *)
(***************************************************************************)
InList(nm, seq) == \E i \in 1..Len(seq) : seq[i] = nm

\* the current run's directory bears its final name: the rename has happened
Renamed ==
  /\ runs > 0
  /\ ~config.dry_run
  /\ dest[FinalName].kind = "dir"
  /\ dest[FinalName].owner = runs

\* the record of the run before the current one
PreviousRun == log[Len(log)]

\* execute has returned to a run that follows one that committed and returned Ok
SecondRunExecuted ==
  /\ pc = "joined"
  /\ Len(log) > 0
  /\ PreviousRun.result = "Ok"
  /\ ~PreviousRun.dry_run

RegularFiles == {p \in AllPaths : src[p].kind = "file"}

\* neither the entry nor a directory above it matches an exclusion pattern
Included(p) == \A q \in Prefixes(p) : filter_entry(q, config)

\* the entries counted under `linked` when nothing has changed: regular files
\* and symbolic links, except a link whose target cannot be read (which is
\* skipped) and a link that leads to a directory (which decide_action takes
\* for a directory)
LinkableEntries ==
  {p \in AllPaths : /\ Included(p)
                    /\ src[p].kind \in {"file", "symlink"}
                    /\ src[p].kind = "symlink" => read_link_ok(PathOf(SourceRoot, p))
                    /\ ~is_dir(PathOf(SourceRoot, p))}

C2_CommitAtomicity ==
  (Renamed /\ pc \in {"renamed", "unlinked", "crashed"})
  => /\ InList(FinalName, find_all_backups)
     /\ find_latest_backup = FinalName

\* the process stopped after the rename, with `current` still a link to the
\* generation before
C2_Witness ==
  /\ pc = "crashed"
  /\ Renamed
  /\ dest[CurrentName].kind = "symlink"
  /\ dest[CurrentName].link # FinalName
  /\ find_latest_backup = FinalName

\* a directory made by the current run is in the generation listing
OwnGenerationListed ==
  \E i \in 1..Len(find_all_backups) : dest[find_all_backups[i]].owner = runs

\* C3: from the start of a run until the rename of commit_backup (while it
\* scans and executes, and after a crash or an aborted commit) no directory of
\* the run is returned by find_all_backups or find_latest_backup; from the
\* rename on its generation is returned by both
C3_VisibleFromRenameOn ==
  (runs > 0)
  => IF Renamed
     THEN /\ InList(FinalName, find_all_backups)
          /\ find_latest_backup = FinalName
     ELSE /\ ~OwnGenerationListed
          /\ find_latest_backup # NoRoot => dest[find_latest_backup].owner # runs

\* a commit was refused: the run's directory is still there under its
\* temporary name, beside a listed generation it is not part of
C3_Witness ==
  /\ pc = "failed"
  /\ ~config.dry_run
  /\ ~Renamed
  /\ dest[TempName].kind = "dir"
  /\ dest[TempName].owner = runs
  /\ dest[TempName].tree[<<"d", "g">>].kind = "file"
  /\ find_all_backups # <<>>

\* the emitted tasks of the given action types that did not fail
Succeeded(types) ==
  {i \in 1..Len(emitted) : /\ emitted[i].task.rel_path \notin failedTasks
                           /\ emitted[i].action.type \in types}

\* the directory the current run writes to, under the name it has now
RunTree == IF Renamed THEN dest[FinalName].tree ELSE dest[TempName].tree

\* what a task that did not fail leaves in the run's directory
NormalOutcome(i) ==
  LET t == emitted[i].task
      a == emitted[i].action
      made == RunTree[t.rel_path]
      from == metadata(t.src_path)
  IN CASE a.type \in {"CopyNew", "CopyModified"} ->
            made = FileNode(from.bytes, from.perm, from.mtime, TRUE)
       [] a.type = "Link" -> made = symlink_metadata(a.path)
       [] a.type = "MakeSymlink" -> made = LinkNode(a.target, TRUE)
       [] a.type = "CreateDir" -> made.kind = "dir"
       [] OTHER -> TRUE

\* execute has returned: every emitted task has been processed
Executed == pc \in {"joined", "renamed", "unlinked", "done", "failed"}

C4_Counters ==
  Executed
  => /\ stats.failed = Cardinality(failedTasks)
     /\ stats.copied_new = Cardinality(Succeeded({"CopyNew"}))
     /\ stats.copied_modified = Cardinality(Succeeded({"CopyModified"}))
     /\ stats.linked = Cardinality(Succeeded({"Link", "MakeSymlink"}))
     /\ stats.skipped = Cardinality(Succeeded({"Skip"}))
     /\ stats.total_files = Len(emitted) - Cardinality(Succeeded({"CreateDir"}))
     /\ ~config.dry_run =>
          \A i \in Succeeded({"CopyNew", "CopyModified", "Link", "MakeSymlink", "CreateDir"}) :
            NormalOutcome(i)

\* after execute the commit goes ahead whatever failed: with the final name
\* free, the next step of the run is the rename unless the rename itself fails
C4_CommitGoesAhead ==
  (pc = "joined" /\ ~config.dry_run /\ dest[FinalName].kind = "absent" /\ failures' = failures)
  => pc' \in {"renamed", "crashed"}

\* C4: whichever tasks fail, when execute has returned failed is the number of
\* failed tasks, every other task is counted under its own action and has left
\* its entry in the run's directory, and the run goes on to commit
C4_FailureIsolation == [](C4_Counters) /\ [][C4_CommitGoesAhead]_vars

\* a run that committed and returned Ok with one task failed and the other
\* entries in place
C4_Witness ==
  /\ pc = "done"
  /\ Renamed
  /\ dest[CurrentName].link = FinalName
  /\ stats.failed = 1
  /\ failedTasks = {<<"d", "g">>}
  /\ stats.linked = 1
  /\ Len(emitted) = 4

\* C5: no task is emitted for an entry that matches a compiled exclusion
\* pattern or lies below a directory that matches one
C5_ExclusionCorrectness ==
  \A i \in 1..Len(emitted) :
    \A q \in Prefixes(emitted[i].task.rel_path) :
      ~matches_exclude_pattern(q, compiled_patterns(config))

\* the walk is over; the directory matched a pattern, the file in it matched
\* none, and neither was emitted
C5_Witness ==
  /\ scan = "finished"
  /\ matches_exclude_pattern(<<"d">>, compiled_patterns(config))
  /\ ~matches_exclude_pattern(<<"d", "g">>, compiled_patterns(config))
  /\ src[<<"d", "g">>].kind = "file"
  /\ Len(emitted) = 2
  /\ \A i \in 1..Len(emitted) : emitted[i].task.rel_path \in {<<>>, <<"s">>}

\* the step in which pool thread w counts the result of its task
RecordStep(w) ==
  /\ pc = "pipeline"
  /\ pc' = "pipeline"
  /\ worker[w].st = "processed"
  /\ worker'[w].st = "idle"

SuccessCounters == {"copied_new", "copied_modified", "linked", "skipped"}

\* the success counters a step increments by one, the others being unchanged
Incremented ==
  IF \A f \in SuccessCounters : stats'[f] \in {stats[f], stats[f] + 1}
  THEN {f \in SuccessCounters : stats'[f] = stats[f] + 1}
  ELSE SuccessCounters

\* the counter of an action
CounterOf(a) ==
  CASE a.type = "CopyNew" -> {"copied_new"}
    [] a.type = "CopyModified" -> {"copied_modified"}
    [] a.type \in {"Link", "MakeSymlink"} -> {"linked"}
    [] a.type = "Skip" -> {"skipped"}
    [] OTHER -> {}

\* a failed task adds one to failed and leaves the success counters and
\* bytes_copied alone
FailureCounted ==
  /\ stats'.failed = stats.failed + 1
  /\ Incremented = {}
  /\ stats'.bytes_copied = stats.bytes_copied

C12_EverySuccessCounted ==
  \A w \in 1..Workers :
    RecordStep(w) =>
      IF worker[w].res = "Ok"
      THEN Cardinality(Incremented) = 1 /\ stats'.failed = stats.failed
      ELSE FailureCounted

\* C12 (as claimed): every task whose operation succeeds increments exactly one
\* of copied_new, copied_modified, linked, skipped; every task whose operation
\* fails increments failed and none of the success counters, nor bytes_copied.
C12_StatisticsAccounting == [][C12_EverySuccessCounted]_vars

C12_SuccessCountedByAction ==
  \A w \in 1..Workers :
    RecordStep(w) =>
      IF worker[w].res = "Ok"
      THEN /\ Incremented = CounterOf(worker[w].action)
           /\ stats'.failed = stats.failed
           /\ stats'.bytes_copied = stats.bytes_copied + worker[w].bytes
      ELSE FailureCounted

\* C12 (amended): every task whose operation succeeds and whose action is not
\* CreateDir increments exactly one of copied_new, copied_modified, linked,
\* skipped, the one of its action (linked for Link and MakeSymlink); a CreateDir
\* that succeeds increments none of them; every task whose operation fails
\* increments failed and none of the success counters, nor bytes_copied.
C12_AccountingByAction == [][C12_SuccessCountedByAction]_vars

\* execute has returned with a copy that failed, counted under failed alone,
\* beside a link and directories that succeeded
C12_Witness ==
  /\ Executed
  /\ stats.failed = 1
  /\ stats.copied_new = 0
  /\ stats.copied_modified = 0
  /\ stats.bytes_copied = 0
  /\ stats.linked = 1
  /\ \E i \in 1..Len(emitted) :
       /\ emitted[i].task.rel_path \in failedTasks
       /\ emitted[i].action.type = "CopyNew"
  /\ Cardinality(Succeeded({"CreateDir"})) = 2

\* C13 (as claimed): when execute has returned, total_files is the number of
\* processed tasks whose action is not CreateDir, whether the directory tasks
\* succeeded or failed.
C13_DirectoriesExcluded ==
  Executed =>
    stats.total_files =
      Cardinality({i \in 1..Len(emitted) : emitted[i].action.type # "CreateDir"})

\* the emitted tasks of the given action types
Emitted(types) == {i \in 1..Len(emitted) : emitted[i].action.type \in types}

\* when execute has returned to a dry run, no task has failed and every task is
\* counted under its action, with no bytes copied
C14_DryRunCounters ==
  (Executed /\ config.dry_run)
  => /\ failedTasks = {}
     /\ stats.failed = 0
     /\ stats.copied_new = Cardinality(Emitted({"CopyNew"}))
     /\ stats.copied_modified = Cardinality(Emitted({"CopyModified"}))
     /\ stats.linked = Cardinality(Emitted({"Link", "MakeSymlink"}))
     /\ stats.skipped = Cardinality(Emitted({"Skip"}))
     /\ stats.total_files = Len(emitted) - Cardinality(Emitted({"CreateDir"}))
     /\ stats.bytes_copied = 0

\* no step of a dry run, its start included, changes the destination root, an
\* entry under it or the source
C14_DryRunFrame == config'.dry_run => UNCHANGED fsVars

\* C14: in a dry run every task succeeds and is counted under its action with
\* bytes_copied = 0, and nothing is written: no task changes the filesystem, no
\* destination root and no .partial directory is created, nothing is renamed
\* and `current` is left as it is.
C14_DryRun == [](C14_DryRunCounters) /\ [][C14_DryRunFrame]_vars

\* a dry run over a destination that does not exist has returned Ok: the
\* file counted as new, the link as linked, and still no destination
C14_Witness ==
  /\ pc = "done"
  /\ config.dry_run
  /\ ~destRoot
  /\ \A nm \in Names : dest[nm].kind = "absent"
  /\ stats.copied_new = 1
  /\ stats.linked = 1
  /\ stats.bytes_copied = 0
  /\ Len(emitted) = 4

\* the run has not reached the rename: it is in the pipeline, about to
\* commit, or has returned an error with its temporary directory still there
BeforeRename ==
  \/ pc \in {"spawned", "pipeline", "joined", "aborted"}
  \/ pc = "failed" /\ dest[TempName].kind = "dir" /\ dest[TempName].owner = runs

\* the generation of the current run is under its final name
OwnGenerationCommitted == dest[FinalName].kind = "dir" /\ dest[FinalName].owner = runs

\* a fatal error before the rename is returned to the caller
FatalErrorReturned ==
  (pc \in {"spawned", "pipeline", "joined"} /\ pc' \in {"aborted", "failed"})
  => log' = Append(log, LogEntry("Err"))

\* no step but the rename puts a directory under the final name or takes one
\* away from it, and none but the commit touches `current`
OnlyRenameCommits ==
  (pc \in {"spawned", "pipeline", "joined", "aborted", "failed"} /\ pc' # "renamed")
  => /\ dest'[FinalName].kind = dest[FinalName].kind
     /\ dest'[FinalName].owner = dest[FinalName].owner
     /\ dest'[CurrentName] = dest[CurrentName]

\* C21: a run that ends with a fatal error before the rename completes (the
\* pool cannot be built, the final name is taken, the rename fails) returns the
\* error, its generation never appears under a final name, and `current` stays
\* as it was before the run.
C21_FatalErrorCommitsNothing ==
  /\ [](BeforeRename => ~OwnGenerationCommitted)
  /\ [][FatalErrorReturned /\ OnlyRenameCommits]_vars

\* the second run could not build its pool: its directory is still .partial
\* and `current` leads to the first run's generation
C21_Witness ==
  /\ pc = "aborted"
  /\ runs = 2
  /\ log[Len(log)].result = "Err"
  /\ dest[TempName].kind = "dir" /\ dest[TempName].owner = 2
  /\ dest[CurrentName].kind = "symlink"
  /\ dest[dest[CurrentName].link].owner = 1

\* the scanner has returned and dropped the sender, the channel is empty and
\* every pool thread is at rest
PipelineDrained ==
  /\ scan = "finished"
  /\ walk = <<>>
  /\ chan = <<>>
  /\ \A w \in 1..Workers : worker[w] = IdleWorker

\* run_backup is at or past the call of commit_backup
AtCommit == pc \in {"joined", "renamed", "unlinked", "done", "failed"}

\* nothing is sent, received or processed in a step of the commit
CommitStepQuiet ==
  (AtCommit /\ pc' \in {"joined", "renamed", "unlinked", "done", "failed"})
  => UNCHANGED <<emitted, chan, worker, processed, stats, scan, walk>>

\* C22: commit_backup is called only after execute has returned (the channel
\* closed by the scanner and drained, every worker idle) and the scanner has
\* been joined with Ok; from then on, the rename included, no pair is sent and
\* no task is processed.
C22_CommitAfterPipeline ==
  /\ [](AtCommit => PipelineDrained)
  /\ [][CommitStepQuiet /\ (pc' = "renamed" => pc = "joined")]_vars

\* the rename has happened after three tasks went through the pipeline
C22_Witness ==
  /\ pc = "renamed"
  /\ Len(emitted) >= 3
  /\ \A i \in 1..Len(emitted) : processed[emitted[i].task.rel_path] = 1

\* the pairs sent for the relative path p, pending in the channel, and held
\* by a pool thread that has not called process_task yet
SentFor(p) == {i \in 1..Len(emitted) : emitted[i].task.rel_path = p}

PendingFor(p) == {i \in 1..Len(chan) : chan[i].task.rel_path = p}

HeldFor(p) == {w \in 1..Workers : worker[w].st = "taken" /\ worker[w].task.rel_path = p}

\* the source entries that survive the exclusion
Survivors == {p \in AllPaths : src[p].kind # "absent" /\ Included(p)}

\* no two pairs of the run share a relative path or a destination path
DistinctTasks ==
  \A i, j \in 1..Len(emitted) :
    i # j => /\ emitted[i].task.rel_path # emitted[j].task.rel_path
             /\ emitted[i].task.dest_path # emitted[j].task.dest_path

\* while the receiving end exists, a pair that was sent is in the channel,
\* with one pool thread, or processed once
EachPairInOnePlace ==
  (pc \in {"spawned", "pipeline", "joined", "renamed", "unlinked", "done", "failed"})
  => \A p \in AllPaths :
       Cardinality(PendingFor(p)) + Cardinality(HeldFor(p)) + processed[p]
         = Cardinality(SentFor(p))

Received == Len(emitted) - Len(chan)

\* the channel holds the pairs sent and not yet received, in the order sent
PendingInOrder ==
  ReceiverAlive =>
    /\ Received >= 0
    /\ chan = SubSeq(emitted, Received + 1, Len(emitted))

\* a pair is sent only into a channel that has room for it
SendNeedsRoom ==
  (Len(emitted') > Len(emitted)) =>
    /\ Len(chan) < ChanCap
    /\ chan' = Append(chan, emitted'[Len(emitted')])

\* a thread that receives gets the oldest pending pair, the next one in the
\* order of sending
ReceiveIsOldest ==
  \A w \in 1..Workers :
    (worker[w].st = "idle" /\ worker'[w].st = "taken") =>
      /\ worker'[w].task = emitted[Received + 1].task
      /\ worker'[w].action = emitted[Received + 1].action
      /\ chan' = Tail(chan)

\* C25: the channel never holds more than its capacity of pairs; while it is
\* full the scanner sends nothing, and a send follows only after a receive;
\* the pairs are received in the order they were sent
C25_Backpressure ==
  /\ [](Len(chan) <= ChanCap /\ PendingInOrder)
  /\ [][SendNeedsRoom /\ ReceiveIsOldest]_vars

\* the channel is full, the scanner has the next pair to send, and a thread
\* holds the first pair sent
C25_Witness ==
  /\ Len(chan) = ChanCap
  /\ Len(emitted) = ChanCap + 1
  /\ scan = "walking"
  /\ walk # <<>>
  /\ ~IsWalkErr(Head(walk))
  /\ filter_entry(Head(walk), config)
  /\ \E w \in 1..Workers : worker[w].st = "taken" /\ worker[w].task = emitted[1].task

\* a step of the run whose receiving end has been dropped (execute returned
\* the error of the pool and took rx with it)
ReceiverDropped == pc = "aborted" /\ pc' = "aborted"

\* the scanner has an entry that passes the filter, so its next step is a send
AtSend == scan = "walking" /\ walk # <<>> /\ filter_entry(Head(walk), config)

\* C26: once the receiving end has been dropped no further pair is sent; the
\* next send fails, and with it the walk ends where it is (no further entry
\* is visited) and scan_source returns, reporting no error
C26_EarlyStop ==
  [][ReceiverDropped =>
       /\ emitted' = emitted
       /\ chan' = chan
       /\ log' = log
       /\ AtSend => (scan' = "finished" /\ walk' = walk)
       /\ scan = "finished" => (scan' = "finished" /\ walk' = walk)]_vars

\* the scanner has stopped in the middle of the walk, after pairs were sent
C26_Witness ==
  /\ pc = "aborted"
  /\ scan = "finished"
  /\ walk # <<>>
  /\ Len(emitted) >= 1

\* thread w processes its task in this step, for real and with no file
\* operation failing for an outside reason
ProcessesCleanly(w) ==
  /\ worker[w].st = "taken"
  /\ worker'[w].st = "processed"
  /\ ~config.dry_run
  /\ failures' = failures

\* a file or link task leaves its destination's parent a directory, whether
\* or not the parent's own CreateDir task has been processed
ParentMade(w) ==
  LET rel == worker[w].task.dest_path.rel IN
  worker[w].action.type \in {"CopyNew", "CopyModified", "Link", "MakeSymlink"} =>
    dest'[TempName].tree[Parent(rel)].kind = "dir"

\* a CreateDir task succeeds, and changes nothing where the directory is
\* already there
CreateDirIdempotent(w) ==
  LET rel == worker[w].task.dest_path.rel IN
  worker[w].action.type = "CreateDir" =>
    /\ worker'[w].res = "Ok"
    /\ dest'[TempName].tree[rel].kind = "dir"
    /\ dest[TempName].tree[rel].kind = "dir" => dest'[TempName].tree = dest[TempName].tree

\* C27: in whatever order the threads process the tasks, a file or link task
\* finds or makes its destination's parent, so none fails for a missing
\* parent, and a CreateDir task on a directory that is already there succeeds
C27_CausalOrdering ==
  [][\A w \in 1..Workers :
       ProcessesCleanly(w) => (ParentMade(w) /\ CreateDirIdempotent(w))]_vars

\* the file d/g has been written while the CreateDir task of d is still held
\* by the other thread
C27_Witness ==
  /\ ~config.dry_run
  /\ \E w, v \in 1..Workers :
       /\ worker[w].st = "processed"
       /\ worker[w].task.rel_path = <<"d", "g">>
       /\ worker[w].res = "Ok"
       /\ worker[v].st = "taken"
       /\ worker[v].task.rel_path = <<"d">>
       /\ worker[v].action.type = "CreateDir"
  /\ dest[TempName].tree[<<"d">>].kind = "dir"

\* the five counters of the statistics that count tasks
CountedTasks ==
  stats.copied_new + stats.copied_modified + stats.linked + stats.skipped + stats.failed

\* C28: when execute has returned, the five counters and the CreateDir tasks
\* that succeeded add up to the number of pairs received, whatever the
\* interleaving of the threads was
C28_NoLostUpdates ==
  Executed => CountedTasks + Cardinality(Succeeded({"CreateDir"})) = Received

\* execute has returned from a run of four pairs, one of which failed and two
\* of which made a directory
C28_Witness ==
  /\ pc = "joined"
  /\ Received = 4
  /\ stats.failed = 1
  /\ Cardinality(Succeeded({"CreateDir"})) = 2
  /\ CountedTasks = 2

\* C36: in every state (the update of one task is a single step, made under
\* the stats lock) total_files is the sum of copied_new, copied_modified,
\* linked, skipped and failed, whatever the outcomes of the tasks were.
C36_TotalIsSum == stats.total_files = CountedTasks

\* a CreateDir task that failed and a symbolic link that was made have both
\* been counted
C36_Witness ==
  /\ stats.failed = 1
  /\ stats.linked >= 1
  /\ \E i \in 1..Len(emitted) :
       /\ emitted[i].task.rel_path \in failedTasks
       /\ emitted[i].action.type = "CreateDir"
  /\ \E i \in Succeeded({"MakeSymlink"}) : processed[emitted[i].task.rel_path] = 1
  /\ \A w \in 1..Workers : worker[w].st = "idle"
  /\ stats.total_files = stats.failed + stats.linked + stats.copied_new + stats.skipped

\* a step in which a pool thread executes a task
TaskExecutes == \E w \in 1..Workers : worker[w].st = "taken" /\ worker'[w].st = "processed"

\* C37 (as claimed): no task execution changes anything in a committed
\* generation: every entry of every directory under a final name keeps its
\* kind, content, permissions and timestamps, and whatever a task writes is
\* written in the run's own .partial directory.
C37_CommittedImmutable ==
  [][TaskExecutes =>
       \A nm \in Names : nm # TempName => dest'[nm] = dest[nm]]_vars

\* thread w executes its task for real with success, and the task is not a Skip
ExecutesOk(w) ==
  /\ ProcessesCleanly(w)
  /\ worker'[w].res = "Ok"
  /\ worker[w].action.type # "Skip"

\* the destination entry of thread w's task is of the kind of its source
\* entry, and a symbolic link has the target of the source's link
SameKind(w) ==
  LET from == symlink_metadata(worker[w].task.src_path)
      made == dest'[TempName].tree[worker[w].task.dest_path.rel]
  IN /\ made.kind = from.kind
     /\ from.kind = "symlink" => made.target = from.target

\* the Link of a regular file names a reference that is itself a regular file
LinkToRegularFile(w) ==
  (/\ symlink_metadata(worker[w].task.src_path).kind = "file"
   /\ worker[w].action.type = "Link")
  => symlink_metadata(worker[w].action.path).kind = "file"

\* C38 (as claimed): every action that is executed with success leaves a
\* destination entry of the kind of the source entry: a regular file for a
\* regular file, a symbolic link with the same target for a symbolic link, a
\* directory for a directory; and the Link of a regular file is only issued
\* against a reference that is a regular file.
C38_EntryTypePreserved ==
  [][\A w \in 1..Workers : ExecutesOk(w) => (SameKind(w) /\ LinkToRegularFile(w))]_vars

(***************************************************************************)
(* SpecScan: the pipeline of one run over source trees in which a           *)
(* directory cannot be listed, so that the walk yields errors, and with an  *)
(* exclusion pattern that names an entry below the top level.               *)
(***************************************************************************)
\* the source trees of SpecScan: the directory d, the root, or neither of them
\* unreadable
ScanTree(root, d) ==
  [p \in AllPaths |->
     CASE p = <<>> -> root
       [] p = <<"d">> -> d
       [] p = <<"d", "g">> -> FileNode(<<1, 2>>, 420, 2000000, TRUE)
       [] OTHER -> LinkNode(<<"d", "g">>, TRUE)]

ScanTrees == {ScanTree(DirNode, DirNode), ScanTree(DirNode, UnreadableDir),
              ScanTree(UnreadableDir, DirNode)}

\* the exclusion lists of SpecScan: those of Spec and, as a plain name, the
\* name of the file inside the directory
ScanExcludes == ExcludeChoices \cup { << <<"g">> >> }

InitScan ==
  /\ RunAtRest
  /\ platform = "unix"
  /\ src \in ScanTrees
  /\ \E ex \in ScanExcludes : config = [NoConfig EXCEPT !.exclude_patterns = ex]
  /\ destRoot = TRUE
  /\ dest = [nm \in Names |-> IF nm = StampName(1, FALSE) THEN DirEntry(OlderTree, 0) ELSE NoEntry]
  /\ task = NoTask
  /\ action = NoAction
  /\ prune = NoPrune
  /\ processed = NoneProcessed
  /\ ignore = NoIgnore

NextScan ==
  \/ FirstRun
  \/ ScannerStep
  \/ ScanWalkError
  \/ \E w \in 1..Workers : WorkerStep(w)
  \/ MainStep

SpecScan == InitScan /\ [][NextScan]_vars

\* the entries the walk can get to: every directory above them can be listed
Reachable(p) == \A q \in Prefixes(p) : q # p => src[q].ok

\* the relative paths of the pairs sent so far
EmittedPaths == {emitted[i].task.rel_path : i \in 1..Len(emitted)}

\* the step in which the scanner meets an error of the walk
WalkErrorStep == scan = "walking" /\ walk # <<>> /\ IsWalkErr(Head(walk)) /\ walk' # walk

\* C32: an error of the walk yields no pair and does not end the scan: the
\* loop goes on with the next item, and when scan_source has returned and the
\* run has got past execute, a pair has been sent for every entry that is not
\* excluded and can be reached, and for no other
C32_WalkErrorSkipped ==
  /\ [](pc = "joined" => EmittedPaths = {p \in Survivors : Reachable(p)})
  /\ [][WalkErrorStep =>
          /\ walk' = Tail(walk)
          /\ scan' = "walking"
          /\ emitted' = emitted
          /\ log' = log]_vars

\* the directory d could not be listed, and the entry s that the walk yields
\* after the error has its pair
C32_Witness ==
  /\ pc = "joined"
  /\ ~src[<<"d">>].ok
  /\ config.exclude_patterns = <<>>
  /\ EmittedPaths = {<<>>, <<"d">>, <<"s">>}

\* a pattern without a wildcard: a plain name
PlainName(pat) == \A i \in 1..Len(pat) : pat[i] \notin {"*", "?", "["}

\* the last component of a path, as a string
NameOf(p) == <<p[Len(p)]>>

\* the entry's name is a plain-name pattern of the configuration
NamedByPattern(p) ==
  \E i \in 1..Len(config.exclude_patterns) :
    PlainName(config.exclude_patterns[i]) /\ config.exclude_patterns[i] = NameOf(p)

\* the entry's name ends as a pattern of the form *suffix says
NamedBySuffixPattern(p) ==
  \E i \in 1..Len(config.exclude_patterns) :
    LET pat == config.exclude_patterns[i] IN
    /\ Len(pat) = 2
    /\ pat[1] = "*"
    /\ PlainName(Tail(pat))
    /\ Tail(pat) = NameOf(p)

\* C34 (as claimed): a pattern that is a plain name excludes every entry with
\* that name at any depth of the source tree, and a pattern *suffix excludes
\* the matching entries at the top level and inside directories: no pair is
\* sent for any of them.
C34_PatternReach ==
  pc = "joined" =>
    \A p \in AllPaths \ {<<>>} :
      (src[p].kind # "absent" /\ (NamedByPattern(p) \/ NamedBySuffixPattern(p)))
        => p \notin EmittedPaths

(***************************************************************************)
(* Properties of SpecCommit.                                               *)
(***************************************************************************)
\* `current` is a symbolic link that leads to the directory named nm
CurrentResolvesTo(nm) ==
  /\ dest[CurrentName].kind = "symlink"
  /\ dest[CurrentName].link = nm
  /\ dest[nm].kind = "dir"

\* commit_backup returned Ok
Committed == pc = "done" /\ ~config.dry_run

\* the final name of the run is already taken when commit_backup is called
Collision == pc = "joined" /\ ~config.dry_run /\ dest[FinalName].kind # "absent"

\* commit_backup returned Err at its first check, with the file system as it
\* was when the call began
AbortedUntouched ==
  /\ pc' = "failed"
  /\ log' = Append(log, LogEntry("Err"))
  /\ UNCHANGED fsVars

\* C17: when the final name already exists, commit_backup returns an error
\* and changes nothing: the temporary directory keeps its .partial name, the
\* directory under the final name is untouched, and `current` is neither
\* removed nor repointed.
C17_CollisionStep == Collision => (AbortedUntouched \/ pc' = "crashed")

C17_CollisionChangesNothing ==
  /\ [](Collision => dest[TempName].kind = "dir")
  /\ [][C17_CollisionStep]_vars

C17_Witness ==
  /\ pc = "failed"
  /\ failures = 0
  /\ dest[TempName].kind = "dir" /\ dest[TempName].owner = runs
  /\ dest[FinalName].kind = "dir" /\ dest[FinalName].owner # runs
  /\ dest[CurrentName].kind = "symlink"

\* C15: after every successful commit_backup, `current` exists and resolves
\* to the generation directory this commit renamed to its final name, whatever
\* `current` was before and whether the destination root was configured as an
\* absolute or as a relative path.  Stated for the unix build, where a failure
\* to create the link is returned as an error.
C15_CurrentPointsToCommitted ==
  (Committed /\ platform = "unix") =>
    CurrentResolvesTo(FinalName) /\ dest[FinalName].owner = runs

\* the step of commit_backup in which the new `current` is not created
LinkFails == pc = "unlinked" /\ pc' \notin {"unlinked", "crashed"} /\ dest' = dest

\* commit_backup returns an error, the generation staying under its final name
ReturnsErrCommitted ==
  /\ pc' = "failed"
  /\ log' = Append(log, LogEntry("Err"))
  /\ dest'[FinalName].kind = "dir"
  /\ dest'[FinalName].owner = runs

\* the removal of the old `current`, failed or not, only leads on to the
\* creation of the new one
UnlinkUnreported == (pc = "renamed" /\ pc' # "crashed") => (pc' = "unlinked" /\ log' = log)

Range(q) == {q[i] : i \in 1..Len(q)}

\* the names find_all_backups returns
Listed == Range(find_all_backups)

\* the name is a timestamp for the parser
Parses(nm) == NameFields[nm] # <<-1>>

\* entries that are no generation whatever lies under them
NeverGeneration(nm) ==
  \/ nm = CurrentName
  \/ ends_with(NameText[nm], DotPartial)
  \/ dest[nm].kind \in {"absent", "file"}
  \/ ~Parses(nm)

\* the candidates prune_backups has removed so far
Deleted == IF prune.dry_run THEN {} ELSE {prune.to_delete[i] : i \in 1..(prune.next - 1)}

\* a step changes under the destination root nothing but entries that were
\* in the listing prune_backups took
ChangesOnlyListed ==
  \A nm \in DOMAIN dest :
    dest'[nm] # dest[nm] => nm \in Range(prune.backups) /\ ~NeverGeneration(nm)

\* C18 as stated: the listings contain exactly the directories whose name
\* parses as the timestamp format; `current`, names ending in .partial,
\* non-directories and other names are never listed, never the reference
\* generation and never deleted by prune.
C18_ListingsExactState ==
  /\ Listed = {nm \in DOMAIN dest : dest[nm].kind = "dir" /\ Parses(nm)}
  /\ find_latest_backup \in Listed \cup {NoRoot}
  /\ \A nm \in DOMAIN dest : NeverGeneration(nm) => nm \notin Listed

C18_ListingsExactByIsDirState ==
  /\ Listed = {nm \in DOMAIN dest : EntryIsDir(nm) /\ Parses(nm)}
  /\ find_latest_backup \in Listed \cup {NoRoot}
  /\ \A nm \in DOMAIN dest : NeverGeneration(nm) => nm \notin Listed

RECURSIVE Earlier(_, _)
Earlier(f, g) ==
  IF f = <<>> \/ g = <<>> THEN FALSE
  ELSE IF Head(f) # Head(g) THEN Head(f) < Head(g)
  ELSE Earlier(Tail(f), Tail(g))

\* the listing runs from the oldest generation to the newest
OldestFirst(q) ==
  \A i, j \in 1..Len(q) : i < j => ~Earlier(NameFields[q[j]], NameFields[q[i]])

\* C19: for any two names accepted as valid generations, the lexicographic
\* order equals the chronological order of the timestamps they denote, so
\* find_all_backups lists oldest first and find_latest_backup returns the
\* chronologically latest generation.
C19_NameOrderIsTimeOrder ==
  /\ \A a, b \in Listed :
       LexLess(NameText[a], NameText[b]) <=> Earlier(NameFields[a], NameFields[b])
  /\ OldestFirst(find_all_backups)
  /\ \A nm \in Listed : ~Earlier(NameFields[find_latest_backup], NameFields[nm])

\* how many generations a prune of n with keep-count k is to delete
Surplus(n, k) == IF n > k THEN n - k ELSE 0

\* prune_backups returned Ok without dry_run: of the listing it took, the
\* Surplus first are gone, the others are the listing now, and every name
\* that went is smaller than every name that stayed
PrunedExactly ==
  LET l == prune.backups
      d == Surplus(Len(l), prune.keep)
  IN /\ \A i \in 1..d : dest[l[i]].kind = "absent"
     /\ Listed = {l[i] : i \in (d + 1)..Len(l)}
     /\ Cardinality(Listed) = Len(l) - d
     /\ \A x \in Range(l) \ Listed, y \in Listed : LexLess(NameText[x], NameText[y])

\* prune_backups returned Err: the candidates before the failing one are
\* gone, the failing one and all later ones are still listed
StoppedAtFailure ==
  /\ \A i \in 1..(prune.next - 1) : dest[prune.to_delete[i]].kind = "absent"
  /\ \A i \in prune.next..Len(prune.to_delete) : prune.to_delete[i] \in Listed
  /\ Range(SubSeq(prune.backups, Len(prune.to_delete) + 1, Len(prune.backups))) \subseteq Listed

C20_PruneState ==
  /\ (prune.st = "done" /\ ~prune.dry_run) => PrunedExactly
  /\ prune.st = "failed" => StoppedAtFailure

\* with dry_run set no step changes the file system
C20_DryRunFrame == prune.dry_run => UNCHANGED fsVars

\* C20: a successful prune without dry_run deletes exactly the max(0, n - k)
\* generations with the smallest names and leaves the k greatest; with dry_run
\* it deletes nothing; when one deletion fails it returns an error and no
\* later candidate is deleted.
C20_Prune == [](C20_PruneState) /\ [][C20_DryRunFrame]_vars

C20_Witness ==
  /\ prune.st = "done"
  /\ ~prune.dry_run
  /\ Cardinality(Deleted) = 2
  /\ Cardinality(Listed) = prune.keep
  /\ prune.keep > 0

(***************************************************************************)
(* SpecDecide: decide_action on every combination of one source entry, one *)
(* reference entry (or none) and the configuration.  The entry under       *)
(* classification is "s"; beside it are a directory "d" and a file "d/g",  *)
(* for a symbolic link to point at.                                        *)
(***************************************************************************)
Perms == {420, 384}

SrcTimes == {2000000, NoTime}

RefTimes == {999000, 1000000, 1001000, 2000000, 2999999, 3000000, 3001000, NoTime}

LinkTargets == {<<"d", "g">>, <<"d">>, <<"z">>}

OtherEntries == {NoNode, DirNode} \cup {LinkNode(tg, r) : tg \in LinkTargets, r \in BOOLEAN}

SrcEntries ==
  {FileNode(b, p, t, r) : b \in Contents, p \in Perms, t \in SrcTimes, r \in BOOLEAN}
    \cup OtherEntries

RefEntries ==
  {FileNode(b, p, t, r) : b \in Contents, p \in Perms, t \in RefTimes, r \in BOOLEAN}
    \cup OtherEntries

\* a tree holding the entry under classification next to a directory and its file
TreeWith(n) ==
  [p \in AllPaths |->
     CASE p = <<>> -> DirNode
       [] p = <<"d">> -> DirNode
       [] p = <<"d", "g">> -> FileNode(<<1>>, 420, 2000000, TRUE)
       [] OTHER -> n]

RefGen == StampName(1, FALSE)

InitDecide ==
  /\ RunAtRest
  /\ destRoot = TRUE
  /\ platform \in {"unix", "windows"}
  /\ \E c \in BOOLEAN : config = [NoConfig EXCEPT !.check_content = c]
  /\ \E n \in SrcEntries : src = TreeWith(n)
  /\ \E n \in RefEntries : dest = [nm \in Names |-> IF nm = RefGen THEN DirEntry(TreeWith(n), 0) ELSE NoEntry]
  /\ \E o \in {NoPath, PathOf(RefGen, <<"s">>)} :
       task = FileTask(<<"s">>, PathOf(SourceRoot, <<"s">>), PathOf(StampName(2, TRUE), <<"s">>), o)
  /\ action = NoAction
  /\ prune = NoPrune
  /\ processed = NoneProcessed
  /\ ignore = NoIgnore

Classify ==
  /\ action = NoAction
  /\ action' = decide_action(task, config)
  /\ UNCHANGED <<fsVars, platform, config, runVars, task, prune, processed, ignore>>

NextDecide == Classify

SpecDecide == InitDecide /\ [][NextDecide]_vars

(***************************************************************************)
(* Claims about decide_action, checked under SpecDecide.                   *)
(***************************************************************************)
\* the state after decide_action has returned
Classified == action # NoAction

\* the source entry itself, and the reference entry with a final link followed
SrcEntry == symlink_metadata(task.src_path)

RefMeta == metadata(task.old_path)

\* a regular source file with an existing regular reference of the same
\* length and permission bits, both with a modification time
SameSizeAndPerm ==
  /\ task.old_path # NoPath
  /\ SrcEntry.kind = "file"
  /\ RefMeta.kind = "file"
  /\ Len(SrcEntry.bytes) = Len(RefMeta.bytes)
  /\ SrcEntry.perm = RefMeta.perm
  /\ SrcEntry.mtime # NoTime
  /\ RefMeta.mtime # NoTime

\* the distance of the two modification times, in microseconds
MtimeDistance ==
  IF SrcEntry.mtime > RefMeta.mtime THEN SrcEntry.mtime - RefMeta.mtime
  ELSE RefMeta.mtime - SrcEntry.mtime

\* C6 (as claimed): with no reference path, decide_action returns CopyNew for
\* every regular file, CreateDir for every directory and MakeSymlink(target) for
\* every symbolic link (one whose target can be read), whatever the link points
\* to.
C6_FirstBackup ==
  (Classified /\ task.old_path = NoPath) =>
    /\ SrcEntry.kind = "file" => action = CopyNew
    /\ SrcEntry.kind = "dir" => action = CreateDir
    /\ (SrcEntry.kind = "symlink" /\ SrcEntry.ok) => action = MakeSymlink(SrcEntry.target)

\* C7: a regular source file whose reference exists and has a different length
\* is classified CopyModified, for every mtime difference, every permission bits
\* and both values of check_content.
C7_SizeChange ==
  (/\ Classified
   /\ task.old_path # NoPath
   /\ SrcEntry.kind = "file"
   /\ RefMeta.kind # "absent"
   /\ Len(SrcEntry.bytes) # Len(RefMeta.bytes))
    => action = CopyModified

\* C7 witness: lengths differ while mtime and permission bits are equal and
\* check_content is off, and the answer is CopyModified
C7_Witness ==
  /\ Classified
  /\ task.old_path # NoPath
  /\ SrcEntry.kind = "file"
  /\ RefMeta.kind = "file"
  /\ Len(SrcEntry.bytes) # Len(RefMeta.bytes)
  /\ SrcEntry.perm = RefMeta.perm
  /\ SrcEntry.mtime = 2000000
  /\ RefMeta.mtime = 2000000
  /\ ~config.check_content
  /\ action = CopyModified

\* C8: with check_content off, a regular source file and an existing reference
\* of identical size and permission bits classify as Link(reference) when the
\* modification times are less than 1000 ms apart and as CopyModified when they
\* are 1000 ms or more apart, whichever side is the newer.
C8_MtimeTolerance ==
  (Classified /\ SameSizeAndPerm /\ ~config.check_content) =>
    /\ MtimeDistance < 1000000 => action = Link(task.old_path)
    /\ MtimeDistance >= 1000000 => action = CopyModified

\* C8 witness: the reference is newer by 999.999 ms and the file is linked
C8_Witness ==
  /\ Classified
  /\ SameSizeAndPerm
  /\ ~config.check_content
  /\ RefMeta.mtime - SrcEntry.mtime = 999999
  /\ action = Link(task.old_path)

\* C9 (as claimed): files of identical size and permission bits whose mtimes
\* are 1001 ms apart classify as CopyModified for every value of check_content.
C9_OutsideToleranceAlwaysCopies ==
  (Classified /\ SameSizeAndPerm /\ MtimeDistance = 1001000) => action = CopyModified

\* C9 (amended): files of identical size and permission bits whose mtimes are
\* 1001 ms apart classify as CopyModified when check_content is off; when it is
\* on the digests are compared whatever the mtimes say, and the result is
\* Link(reference) if both digests were computed and are equal, CopyModified
\* otherwise.
C9_OutsideToleranceByDigest ==
  (Classified /\ SameSizeAndPerm /\ MtimeDistance = 1001000) =>
    action = IF config.check_content /\ HashesAgree(task) THEN Link(task.old_path)
             ELSE CopyModified

\* C9 witness: 1001 ms apart, check_content on, identical readable contents,
\* and the file is linked
C9_Witness ==
  /\ Classified
  /\ SameSizeAndPerm
  /\ MtimeDistance = 1001000
  /\ config.check_content
  /\ SrcEntry.bytes = RefMeta.bytes
  /\ action = Link(task.old_path)

\* C10 (as claimed): source and reference regular files of identical size,
\* permissions and mtime but different content classify as CopyModified when
\* check_content is on and as Link(reference) when it is off.
C10_ContentCheckOverrides ==
  (Classified /\ SameSizeAndPerm /\ MtimeDistance = 0 /\ SrcEntry.bytes # RefMeta.bytes) =>
    action = IF config.check_content THEN CopyModified ELSE Link(task.old_path)

\* C10 (amended): source and reference regular files of identical size,
\* permissions and mtime but different content classify as Link(reference) when
\* check_content is off; when it is on they classify as CopyModified unless both
\* digests were computed and are equal (two contents sharing one digest), in
\* which case the answer is Link(reference).
C10_ContentCheckByDigest ==
  (Classified /\ SameSizeAndPerm /\ MtimeDistance = 0 /\ SrcEntry.bytes # RefMeta.bytes) =>
    action = IF config.check_content /\ ~HashesAgree(task) THEN CopyModified
             ELSE Link(task.old_path)

\* C10 witness: equal size, permissions and mtime, contents with different
\* digests, check_content on, and the file is copied
C10_Witness ==
  /\ Classified
  /\ SameSizeAndPerm
  /\ MtimeDistance = 0
  /\ SrcEntry.bytes # RefMeta.bytes
  /\ SrcEntry.ok /\ RefMeta.ok
  /\ config.check_content
  /\ action = CopyModified

\* what C11 asks of every Link given for an entry that is no symbolic link,
\* but for the modification times: an existing reference of the same length
\* and, where permission bits are compared, the same permission bits
LinkedOnCheapSignals ==
  /\ action = Link(task.old_path)
  /\ task.old_path # NoPath
  /\ RefMeta.kind # "absent"
  /\ Len(SrcEntry.bytes) = Len(RefMeta.bytes)
  /\ platform = "unix" => SrcEntry.perm = RefMeta.perm

\* C11 (as claimed): for a source entry that is no symbolic link, Link is
\* returned only for an existing reference of equal size and permission bits
\* with either check_content off and mtimes less than 1000 ms apart, or
\* check_content on and both digests computed and equal; a digest failure, an
\* unreadable reference or an unavailable mtime never yields Link.
C11_ConservativeLinking ==
  (Classified /\ SrcEntry.kind # "symlink" /\ action.type = "Link") =>
    /\ LinkedOnCheapSignals
    /\ SrcEntry.mtime # NoTime
    /\ RefMeta.mtime # NoTime
    /\ IF config.check_content THEN HashesAgree(task) ELSE MtimeDistance < 1000000

\* C11 (amended): as claimed, except that an unavailable mtime rules Link out
\* only when check_content is off; when it is on, equal digests yield Link
\* whether or not either mtime is available.
C11_ConservativeLinkingByMode ==
  (Classified /\ SrcEntry.kind # "symlink" /\ action.type = "Link") =>
    /\ LinkedOnCheapSignals
    /\ IF config.check_content THEN HashesAgree(task)
       ELSE /\ SrcEntry.mtime # NoTime
            /\ RefMeta.mtime # NoTime
            /\ MtimeDistance < 1000000

\* C11 witness: check_content on, no mtime on the source side, equal digests,
\* and the file is linked
C11_Witness ==
  /\ Classified
  /\ SrcEntry.kind = "file"
  /\ SrcEntry.mtime = NoTime
  /\ config.check_content
  /\ HashesAgree(task)
  /\ action = Link(task.old_path)

\* the reference entry itself, no link followed
RefEntry == symlink_metadata(task.old_path)

\* a source symbolic link whose target can be read, classified against a
\* reference path
ReadableLinkWithReference ==
  /\ Classified
  /\ task.old_path # NoPath
  /\ SrcEntry.kind = "symlink"
  /\ SrcEntry.ok

\* the reference is a symbolic link with the same target string
SameLink ==
  /\ RefEntry.kind = "symlink"
  /\ RefEntry.ok
  /\ RefEntry.target = SrcEntry.target

\* C29 (as claimed): a source symbolic link whose reference is a symbolic link
\* with the identical target is classified Link(reference), whether or not the
\* target leads anywhere; every other readable source link with a reference
\* entry is classified MakeSymlink(target).
C29_SymlinkAgainstReference ==
  ReadableLinkWithReference =>
    /\ SameLink => action = Link(task.old_path)
    /\ (~SameLink /\ RefEntry.kind # "absent") => action = MakeSymlink(SrcEntry.target)

\* C30 (as claimed): a source symbolic link whose target cannot be read is
\* classified Skip, with a reference path and without one, and whether or not
\* the reference entry is there.
C30_UnreadableLinkSkipped ==
  (Classified /\ SrcEntry.kind = "symlink" /\ ~SrcEntry.ok) => action = Skip

\* C31 (as claimed): a source entry that is a symbolic link, one that leads to
\* a directory included, is never classified CreateDir, CopyNew or
\* CopyModified, and a real directory is classified CreateDir whatever the
\* reference path holds.
C31_LinksClassifiedNotFollowed ==
  Classified =>
    /\ SrcEntry.kind = "symlink" => action.type \notin {"CreateDir", "CopyNew", "CopyModified"}
    /\ SrcEntry.kind = "dir" => action = CreateDir

(***************************************************************************)
(* SpecConfig: BackupConfig::new (config.rs), which builds the              *)
(* configuration from the caller's arguments and the file .recallignore of  *)
(* the source.  A line and a pattern are sequences of characters.           *)
(***************************************************************************)
\* the longest list of caller patterns and the most lines of a file that
\* SpecConfig begins with
MaxLines == 2

\* str::trim, for blanks
RECURSIVE trim_start(_)
trim_start(l) == IF l # <<>> /\ Head(l) = " " THEN trim_start(Tail(l)) ELSE l

RECURSIVE trim_end(_)
trim_end(l) == IF l # <<>> /\ l[Len(l)] = " " THEN trim_end(SubSeq(l, 1, Len(l) - 1)) ELSE l

trim(l) == trim_end(trim_start(l))

\* Vec::contains
contains(list, x) == \E i \in 1..Len(list) : list[i] = x

\* config.rs lines 116-126: the loop over the lines of the file; empty lines
\* and comments are passed over, a pattern already in the list is not pushed
RECURSIVE push_lines(_, _)
push_lines(patterns, lines) ==
  IF lines = <<>> THEN patterns
  ELSE LET line == trim(Head(lines)) IN
       IF line = <<>> \/ Head(line) = "#" THEN push_lines(patterns, Tail(lines))
       ELSE IF contains(patterns, line) THEN push_lines(patterns, Tail(lines))
       ELSE push_lines(Append(patterns, line), Tail(lines))

\* config.rs lines 141-144: the lines written on every platform
CommonIgnoreLines ==
  << <<"#", " ", "R", "e", "c", "a", "l", "l", " ", "I", "g", "n", "o", "r", "e", " ", "F", "i", "l", "e">>,
     <<"#", " ", "A", "d", "d", " ", "p", "a", "t", "t", "e", "r", "n", "s", " ", "t", "o", " ", "e", "x", "c", "l", "u", "d", "e", " ", "f", "r", "o", "m", " ", "b", "a", "c", "k", "u", "p", " ", "(", "G", "l", "o", "b", " ", "s", "t", "y", "l", "e", ")">>,
     <<>>,
     <<"#", " ", "-", "-", "-", " ", "C", "o", "m", "m", "o", "n", " ", "-", "-", "-">>,
     <<".", "g", "i", "t">>,
     <<".", "s", "v", "n">>,
     <<".", "D", "S", "_", "S", "t", "o", "r", "e">>,
     <<"T", "h", "u", "m", "b", "s", ".", "d", "b">>,
     <<>> >>

\* config.rs lines 147-152
WindowsIgnoreLines ==
  << <<"#", " ", "-", "-", "-", " ", "W", "i", "n", "d", "o", "w", "s", " ", "S", "y", "s", "t", "e", "m", " ", "-", "-", "-">>,
     <<"S", "y", "s", "t", "e", "m", " ", "V", "o", "l", "u", "m", "e", " ", "I", "n", "f", "o", "r", "m", "a", "t", "i", "o", "n">>,
     <<"$", "R", "E", "C", "Y", "C", "L", "E", ".", "B", "I", "N">>,
     <<"R", "e", "c", "o", "v", "e", "r", "y">>,
     <<"p", "a", "g", "e", "f", "i", "l", "e", ".", "s", "y", "s">>,
     <<"h", "i", "b", "e", "r", "f", "i", "l", ".", "s", "y", "s">>,
     <<"s", "w", "a", "p", "f", "i", "l", "e", ".", "s", "y", "s">>,
     <<"D", "u", "m", "p", "S", "t", "a", "c", "k", ".", "l", "o", "g", ".", "t", "m", "p">> >>

\* config.rs lines 155-158
UnixIgnoreLines ==
  << <<"#", " ", "-", "-", "-", " ", "L", "i", "n", "u", "x", "/", "m", "a", "c", "O", "S", " ", "-", "-", "-">>,
     <<"/", "p", "r", "o", "c">>,
     <<"/", "s", "y", "s">>,
     <<"/", "d", "e", "v">> >>

default_content(pf) ==
  CommonIgnoreLines \o (IF pf = "windows" THEN WindowsIgnoreLines ELSE UnixIgnoreLines)

\* what the caller passes as patterns, and what a line of an existing file is
CallerPatterns == {<<"d">>, <<"*", "g">>}

FileLines == {<<"d">>, <<" ", "d", " ">>, <<"s">>, <<>>, <<" ">>, <<"#", "d">>}

SeqsUpTo(S, n) == UNION {[1..k -> S] : k \in 0..n}

InitConfig ==
  /\ RunAtRest
  /\ platform \in {"unix", "windows"}
  /\ src = SourceTree(<<"d", "g">>, TRUE)
  /\ destRoot = FALSE
  /\ dest = [nm \in Names |-> NoEntry]
  /\ \E ex \in SeqsUpTo(CallerPatterns, MaxLines), dry \in BOOLEAN :
       config = [NoConfig EXCEPT !.exclude_patterns = ex, !.dry_run = dry]
  /\ task = NoTask
  /\ action = NoAction
  /\ prune = NoPrune
  /\ processed = NoneProcessed
  /\ \/ ignore = NoIgnore
     \/ \E ls \in SeqsUpTo(FileLines, MaxLines) : ignore = [exists |-> TRUE, lines |-> ls]

\* config.rs lines 45-64 and 104-168: BackupConfig::new with
\* process_recallignore.  A file that is not there is created with the default
\* content, whatever dry_run says; File::create, write_all and read_to_string
\* can each fail, and the error is returned.
ConfigNew ==
  /\ pc = "idle"
  /\ LET written == IF ignore.exists THEN ignore
                    ELSE [exists |-> TRUE, lines |-> default_content(platform)]
     IN \/ /\ ignore' = written
           /\ config' = [config EXCEPT !.exclude_patterns = push_lines(@, written.lines)]
           /\ pc' = "configured"
           /\ UNCHANGED failures
        \/ /\ failures < MaxFailures
           /\ ~ignore.exists
           /\ ignore' \in {ignore, [exists |-> TRUE, lines |-> <<>>]}
           /\ pc' = "failed"
           /\ failures' = failures + 1
           /\ UNCHANGED config
        \/ /\ failures < MaxFailures
           /\ ignore' = written
           /\ pc' = "failed"
           /\ failures' = failures + 1
           /\ UNCHANGED config
  /\ UNCHANGED <<fsVars, platform, runs, clock, stamp, latest_backup, scan, walk, chan, worker,
                 stats, emitted, failedTasks, log, task, action, prune, processed>>

NextConfig == ConfigNew

SpecConfig == InitConfig /\ [][NextConfig]_vars

\* no pattern occurs twice in the list
NoDuplicates(list) == \A i, j \in 1..Len(list) : list[i] = list[j] => i = j

IsPrefix(a, b) == Len(a) <= Len(b) /\ SubSeq(b, 1, Len(a)) = a

\* the step in which BackupConfig::new returns the configuration
Configured == pc = "idle" /\ pc' = "configured"

\* C35 (as claimed): the exclusion list of the configuration holds no pattern
\* twice, whatever the caller passed and whatever the file's lines are, and
\* begins with the caller's patterns in the caller's order.
C35_Deduplicated ==
  [][Configured =>
       /\ NoDuplicates(config'.exclude_patterns)
       /\ IsPrefix(config.exclude_patterns, config'.exclude_patterns)]_vars

\* C40 (as claimed): a dry run leaves the file system as it found it, from
\* the construction of the configuration on: nothing is created, changed or
\* removed in the source tree, the file .recallignore included, nor under the
\* destination root.
C40_DryRunLeavesNoTrace ==
  [][config.dry_run => (ignore' = ignore /\ UNCHANGED fsVars)]_vars

(***************************************************************************)
(* SpecKeep: backup runs of an empty source directory and calls of          *)
(* prune_backups that keep at least one generation, one after the other in  *)
(* any order, on a destination root that is empty at first, given as an     *)
(* absolute or as a relative path, on both build targets.                   *)
(***************************************************************************)
InitKeep ==
  /\ RunAtRest
  /\ platform \in {"unix", "windows"}
  /\ src = EmptySource
  /\ \E d \in {"absolute", "relative"} : config = [NoConfig EXCEPT !.destination = d]
  /\ destRoot = FALSE
  /\ dest = [nm \in Names |-> NoEntry]
  /\ task = NoTask
  /\ action = NoAction
  /\ prune = NoPrune
  /\ processed = NoneProcessed
  /\ ignore = NoIgnore

\* no call of prune_backups is under way
PruneAtRest == prune.st \notin {"called", "deleting"}

\* main.rs lines 95-98: the program is started for a backup
KeepRun == PruneAtRest /\ StartRun

\* main.rs lines 85-94: the program is started for the prune command, with
\* a keep-count of at least one, while no run is under way
PruneCall ==
  /\ pc \in {"idle", "done", "failed", "aborted"}
  /\ PruneAtRest
  /\ \E k \in 1..MaxKeep, dry \in BOOLEAN :
       prune' = [NoPrune EXCEPT !.st = "called", !.keep = k, !.dry_run = dry]
  /\ UNCHANGED <<fsVars, platform, config, runVars, task, action, processed, ignore>>

NextKeep ==
  \/ KeepRun
  \/ ScanSend
  \/ ScanSendFails
  \/ ScanFinish
  \/ \E w \in 1..Workers : WorkerStep(w)
  \/ MainStep
  \/ DryRunFinish
  \/ CommitAbort
  \/ CommitRename
  \/ CommitUnlink
  \/ CommitLink
  \/ PruneCall
  \/ PruneList
  \/ PruneDelete
  \/ PruneReturn

SpecKeep == InitKeep /\ [][NextKeep]_vars

\* no commit is in progress, and every run so far has returned Ok
CommitsSucceeded ==
  /\ pc \in {"idle", "done"}
  /\ \A i \in 1..Len(log) : log[i].result = "Ok"

\* `current` is a link that leads to the directory of a generation
CurrentLeadsToGeneration ==
  /\ dest[CurrentName].kind = "symlink"
  /\ dest[CurrentName].link \in Names
  /\ ~dest[CurrentName].link.partial
  /\ dest[dest[CurrentName].link].kind = "dir"

\* C39 (as claimed): after backup commits that succeeded and prunes that keep
\* at least one generation, in any order, while no commit is in progress: if
\* `current` exists, it leads to the directory of a committed generation, and
\* that generation is the one find_latest_backup returns.
C39_CurrentIsLatest ==
  (CommitsSucceeded /\ dest[CurrentName].kind # "absent") =>
    /\ CurrentLeadsToGeneration
    /\ find_latest_backup = dest[CurrentName].link

====
